---- MODULE Spec2Model ----
(***************************************************************************)
(* Session store, feed walker and orchestrators of the short-form content  *)
(* study (src/experiment.py, src/home.py, src/youtube.py, src/llm.py), and *)
(* the statistical analysis of its home-feed sessions (src/analysis.py).   *)
(* One profile runs one orchestrator process at a time; the browser, the   *)
(* classifier, the wall clock and the operator's Ctrl-C are the            *)
(* environment.  SpecPair sets two session runs side by side on one data   *)
(* directory, SpecDirect calls the functions of the analysis on their own, *)
(* SpecLikes keeps the likes the training feeds have received, and         *)
(* SpecHomeFair is the measurement phase under weak fairness.  The         *)
(* progress reports (src/check_progress.py, src/check_home_progress.py)    *)
(* are functions of the data directory.                                    *)
(***************************************************************************)
EXTENDS Integers, Sequences, FiniteSets, TLC

----------------------------------------------------------------------------
(* Bounds of the model.                                                     *)

\* Last clock tick at which a new session id may be generated.
MaxClock == 4
\* Hours between two clock ticks (sessions are created on whole hours).
TickHours == 6
\* Environment faults (interrupt, kill, failed swipe, closed browser, load
\* timeout, classifier failure, failed lookup, failed like) in one behaviour.
MaxFaults == 1

----------------------------------------------------------------------------
(* Configuration, src/config.py; the counts are scaled down.                *)

SHORTS_PER_SESSION == 2
HOME_SHORTS_PER_SESSION == 2
SESSIONS_PER_COUNTRY == 2
HOME_SESSIONS == 3
\* len(CONFLICT_URLS[region])
PoolSize == 2
\* ConflictCountry, the five regions of the study
ConflictCountry == {"Palestine", "Myanmar", "Ukraine", "Mexico", "Brazil"}

\* A variant of ACCOUNT_COUNTRY_ORDER in which profile_2 repeats profile_1.
ACCOUNT_COUNTRY_ORDER_Repeated ==
    [account \in {"test", "profile_1", "profile_2", "profile_3", "profile_4",
                  "profile_5"} |->
        CASE account = "profile_3"
                 -> <<"Ukraine", "Mexico", "Brazil", "Palestine", "Myanmar">>
          [] account = "profile_4"
                 -> <<"Mexico", "Brazil", "Palestine", "Myanmar", "Ukraine">>
          [] account = "profile_5"
                 -> <<"Brazil", "Palestine", "Myanmar", "Ukraine", "Mexico">>
          [] OTHER
                 -> <<"Palestine", "Myanmar", "Ukraine", "Mexico", "Brazil">>]

ACCOUNT_COUNTRY_ORDER ==
    [account \in {"test", "profile_1", "profile_2", "profile_3", "profile_4",
                  "profile_5"} |->
        CASE account = "test"
                 -> <<"Palestine", "Myanmar", "Ukraine", "Mexico", "Brazil">>
          [] account = "profile_1"
                 -> <<"Palestine", "Myanmar", "Ukraine", "Mexico", "Brazil">>
          [] account = "profile_2"
                 -> <<"Myanmar", "Ukraine", "Mexico", "Brazil", "Palestine">>
          [] account = "profile_3"
                 -> <<"Ukraine", "Mexico", "Brazil", "Palestine", "Myanmar">>
          [] account = "profile_4"
                 -> <<"Mexico", "Brazil", "Palestine", "Myanmar", "Ukraine">>
          [] account = "profile_5"
                 -> <<"Brazil", "Palestine", "Myanmar", "Ukraine", "Mexico">>]

\* ACCOUNTS = set(ACCOUNT_COUNTRY_ORDER.keys())
ACCOUNTS == DOMAIN ACCOUNT_COUNTRY_ORDER

\* The account of the run.
account_id == "profile_1"

\* country_order = config.ACCOUNT_COUNTRY_ORDER[account_id], cut to its first
\* two regions
country_order ==
    <<ACCOUNT_COUNTRY_ORDER[account_id][1], ACCOUNT_COUNTRY_ORDER[account_id][2]>>

Regions == {country_order[n] : n \in 1..Len(country_order)}
Scopes == Regions \cup {"home"}

\* The target length of a session of the scope.
Target(scope) ==
    IF scope = "home" THEN HOME_SHORTS_PER_SESSION ELSE SHORTS_PER_SESSION

VARIABLES
    store,          \* OUTPUT_DIR: file key -> [valid, recs]
    now,            \* wall clock, in ticks
    faults,         \* environment faults so far
    oPc,            \* position of the orchestrator
    round_num, country_idx, session_counter, skipped, sessions_run,
    pc,             \* position of the session run
    scope,          \* conflict_region of the run, or "home"
    session_id, existing_data, shorts_data, i, skip_left, success,
    start_url, exc,
    driver,         \* "none", "open", "quit", "leaked", "killed"
    cursor,         \* feed position of the visible item
    requests,       \* driver.requests: feed positions with a captured response
    actions,        \* what the run has done to the page of the feed surface
    persisted,      \* history: file key -> the records last written to it in full
    cut,            \* history: sessions whose run was stopped between two items
    feed_failed,    \* history: a swipe failed or the browser reported no URL
    loaded,         \* history: training session -> the start URL its first run loaded
    liked,          \* history (SpecLikes): the items of the training feeds that got a like
    aPc,            \* position of run_analysis
    all_shorts,     \* the records run_analysis has loaded
    observed_counts, \* region -> count, once counted
    chi_square_results, \* what run_chi_square_analysis returned
    printed,        \* what print_results has put out
    walker,         \* two session runs side by side: walker -> its state
    touched,        \* history: walker -> the file names it has read or written
    own             \* history: walker -> file name -> content as it left it

orchVars == <<oPc, round_num, country_idx, session_counter, skipped, sessions_run>>
runVars == <<pc, scope, session_id, existing_data, shorts_data, i, skip_left,
             success, start_url, exc>>
driverVars == <<driver, cursor, requests, actions>>
histVars == <<persisted, cut, feed_failed, loaded, liked>>
anaVars == <<aPc, all_shorts, observed_counts, chi_square_results, printed>>
pairVars == <<walker, touched, own>>
vars == <<store, now, faults, orchVars, runVars, driverVars, histVars, anaVars,
          pairVars>>

----------------------------------------------------------------------------
(* Session ids and file names.                                              *)

\* datetime.now(eastern).strftime("%Y-%m-%d_%I:%M:%S%p") at tick t: the date,
\* the hour on the 12-hour clock and the AM/PM mark (minutes and seconds are
\* 00 on a tick).
strftime(t) ==
    LET h == (t * TickHours) % 24
    IN  [date |-> (t * TickHours) \div 24,
         hh   |-> IF h % 12 = 0 THEN 12 ELSE h % 12,
         ampm |-> IF h < 12 THEN "AM" ELSE "PM"]

\* String order of two session ids, as sorted() compares the file names of
\* one account and scope: date, then the two-digit hour, then "AM" < "PM".
NameLess(a, b) ==
    \/ a.date < b.date
    \/ a.date = b.date /\ a.hh < b.hh
    \/ a.date = b.date /\ a.hh = b.hh /\ a.ampm = "AM" /\ b.ampm = "PM"

\* config.OUTPUT_DIR / f"{account_id}_{region}_{session_id}.json"
FileKey(sc, sid) == [scope |-> sc, sid |-> sid]

\* The files matching f"{account_id}_{scope}_*.json".
Glob(st, sc) == {k \in DOMAIN st : k.scope = sc}

RECURSIVE SortByName(_)
SortByName(S) ==
    IF S = {} THEN <<>>
    ELSE LET m == CHOOSE x \in S : \A y \in S \ {x} : NameLess(x.sid, y.sid)
         IN  <<m>> \o SortByName(S \ {m})

get_session_files_for_country(st, sc) == SortByName(Glob(st, sc))

\* json.load raises on a file that is empty or cut short.
Parses(st, k) == st[k].valid

\* A variant of is_session_complete that asks for more records than the
\* target.
is_session_complete_Strict(st, k) == Len(st[k].recs) > Target(k.scope)

is_session_complete(st, k) == Len(st[k].recs) >= Target(k.scope)

\* get_session_count_for_country / get_home_session_count raise when a file
\* of the scope does not parse.
CountRaises(st, sc) == \E k \in Glob(st, sc) : ~Parses(st, k)

get_session_count_for_country(st, sc) ==
    Cardinality({k \in Glob(st, sc) : is_session_complete(st, k)})

\* get_incomplete_session / get_incomplete_home_session read the last file
\* only.
LastFile(st, sc) ==
    LET files == get_session_files_for_country(st, sc) IN files[Len(files)]

IncompleteRaises(st, sc) ==
    Glob(st, sc) # {} /\ ~Parses(st, LastFile(st, sc))

\* The result as a set: empty for None, else the key of the last file.
get_incomplete_session(st, sc) ==
    IF Glob(st, sc) = {} THEN {}
    ELSE IF Len(st[LastFile(st, sc)].recs) < Target(sc)
         THEN {LastFile(st, sc)}
         ELSE {}

\* A variant of get_next_url_for_country that always takes the first URL.
get_next_url_for_country_First(st, sc) == 0

\* A variant of get_next_url_for_country that counts the session files.
get_next_url_for_country_Files(st, sc) == Cardinality(Glob(st, sc)) % PoolSize

\* urls[session_count % len(urls)], as the index
get_next_url_for_country(st, sc) ==
    get_session_count_for_country(st, sc) % PoolSize

----------------------------------------------------------------------------
(* Classifier adapter, src/llm.py.                                          *)

\* response.text values the model draws from.
TrainResponses == {"YES", "yes ", "NO", ""}
HomeResponses == {"PALESTINE", "Myanmar", "NONE", ""}

\* response.text.strip().upper()
StripUpper(text) ==
    CASE text = "yes " -> "YES"
      [] text = "Myanmar" -> "MYANMAR"
      [] OTHER -> text

\* `if not response.text: raise Exception("No response from Gemini API")`
ClassifierRaises(text) == text = ""

is_conflict_related(text) == StripUpper(text) = "YES"

\* conflict_map.get(result, None), with None written "None"
classify_conflict_region(text) ==
    CASE StripUpper(text) = "PALESTINE" -> "Palestine"
      [] StripUpper(text) = "MYANMAR" -> "Myanmar"
      [] StripUpper(text) = "UKRAINE" -> "Ukraine"
      [] StripUpper(text) = "MEXICO" -> "Mexico"
      [] StripUpper(text) = "BRAZIL" -> "Brazil"
      [] OTHER -> "None"

----------------------------------------------------------------------------
(* Item extractor, src/youtube.py.                                          *)

\* What extract_short_metadata sends to the feed surface: it reads the item,
\* and likes and watches it when the classifier said related.
ExtractActions(related) ==
    IF related THEN {"read", "like", "watch"} ELSE {"read"}

\* click_like when the button does not become clickable: the exception is
\* caught and printed, and no like is sent.
click_like_Failed(sent) == sent \ {"like"}

\* A variant of ExtractHomeActions that engages as the training extractor does.
ExtractHomeActions_Engaging(country) ==
    IF country # "None" THEN {"read", "like", "watch"} ELSE {"read"}

\* What extract_home_short_metadata sends to the feed surface.
ExtractHomeActions(country) == {"read"}

\* The pages of the feed.  What a page shows does not change between visits:
\* page `pos` after seed `seed` (or of the home feed) shows a title, a channel
\* and captions, or lacks some of them.
ItemId(sc, seed, pos) == IF sc = "home" THEN 2 * PoolSize + pos
                                        ELSE Target(sc) * seed + pos
NoTitle == {1, 3, 5}
NoChannel == {2, 3, 5}
NoTranscript == {2, 3, 4}

\* A variant of get_text that indexes the element list without testing it.
get_text_Unguarded(found) ==
    [raises |-> ~found, text |-> "text"]

\* get_text: the text of the first element matching the selector, None
\* (written "None") when no element matches; it does not raise.
get_text(found) ==
    [raises |-> FALSE, text |-> IF found THEN "text" ELSE "None"]

\* get_transcript_data: the captions of the captured timedtext response that
\* names the video, None when no captured response names it.
get_transcript_data(reqs, pos, has_captions) ==
    IF pos \in reqs /\ has_captions THEN "transcript" ELSE "None"

\* The fields the extractors read from the visible page.
PageFields(sc, seed, pos, reqs) ==
    LET id == ItemId(sc, seed, pos)
    IN  [title |-> get_text(id \notin NoTitle),
         channel |-> get_text(id \notin NoChannel),
         transcript |-> get_transcript_data(reqs, pos, id \notin NoTranscript)]

ExtractRaises(f) == f.title.raises \/ f.channel.raises

\* The item at a place of the feed that follows a start URL of a region.
FeedItem(sc, seed, pos) == <<sc, seed, pos>>

\* The record of the visible item in a training session.
ShortMetadata(seed, pos, related, f) ==
    [seed |-> seed, pos |-> pos, is_conflict_related |-> related,
     title |-> f.title.text, channel |-> f.channel.text,
     transcript |-> f.transcript]

\* The record of the visible item in a home-feed session.
HomeShortMetadata(pos, country, f) ==
    [seed |-> 0, pos |-> pos, related_country |-> country,
     title |-> f.title.text, channel |-> f.channel.text,
     transcript |-> f.transcript]

----------------------------------------------------------------------------
(* Initial state and the resets of a process's local variables.             *)

NoSid == [date |-> 0, hh |-> 0, ampm |-> "AM"]

\* A file after open(session_file, "w") and before json.dump has finished:
\* empty or cut short, it holds no record and does not parse.
Truncated == [valid |-> FALSE, recs |-> <<>>]

\* The state of a process that has not started anything.
SessionInit ==
    /\ now = 0
    /\ faults = 0
    /\ oPc = "idle"
    /\ round_num = 0 /\ country_idx = 0 /\ session_counter = 0
    /\ skipped = 0 /\ sessions_run = 0
    /\ pc = "idle"
    /\ scope = "none"
    /\ session_id = NoSid
    /\ existing_data = <<>> /\ shorts_data = <<>>
    /\ i = 0 /\ skip_left = 0
    /\ success = FALSE
    /\ start_url = 0
    /\ exc = FALSE
    /\ driver = "none"
    /\ cursor = 0
    /\ requests = {}
    /\ actions = {}
    /\ persisted = <<>>
    /\ cut = {}
    /\ feed_failed = FALSE
    /\ loaded = <<>>
    /\ liked = {}

\* No process of the repository is running.
ProcessInit ==
    /\ SessionInit
    /\ aPc = "a_idle"
    /\ all_shorts = <<>>
    /\ observed_counts = <<>>
    /\ chi_square_results = <<>>
    /\ printed = <<>>
    /\ walker = <<>> /\ touched = <<>> /\ own = <<>>

\* The data directory is empty when the experiment begins.
Init ==
    /\ store = <<>>
    /\ ProcessInit

RunReset ==
    /\ pc' = "idle"
    /\ scope' = "none"
    /\ session_id' = NoSid
    /\ existing_data' = <<>> /\ shorts_data' = <<>>
    /\ i' = 0 /\ skip_left' = 0
    /\ success' = FALSE
    /\ start_url' = 0
    /\ exc' = FALSE

OrchReset ==
    /\ oPc' = "idle"
    /\ round_num' = 0 /\ country_idx' = 0 /\ session_counter' = 0
    /\ skipped' = 0 /\ sessions_run' = 0

\* The driver handle is gone: after driver.quit(), or with the process.
DriverGone ==
    /\ cursor' = 0
    /\ requests' = {}

\* The process ends without returning, on an exception no handler catches.
\* A browser that was open and not quit stays behind.
Terminate ==
    /\ OrchReset
    /\ RunReset
    /\ driver' = IF driver = "open" THEN "leaked" ELSE driver
    /\ DriverGone
    /\ actions' = {}

----------------------------------------------------------------------------
(* One session run: run_capture_session (src/experiment.py) and             *)
(* run_home_feed_session (src/home.py), with the walkers view_shorts and    *)
(* view_home_shorts.                                                        *)

\* The statements inside `try:`, where KeyboardInterrupt is caught.
TryRegion == {"s_load", "s_skip", "w_check", "w_extract", "w_open", "w_dump",
              "w_clear", "w_swipe", "s_success"}

Fault == faults < MaxFaults /\ faults' = faults + 1

\* The session file the run writes.
SessionFile == FileKey(scope, session_id)

\* Records a file holds (none when it does not exist or does not parse).
Held(st, k) == IF k \in DOMAIN st /\ st[k].valid THEN Len(st[k].recs) ELSE 0

\* The session a stop of the run at this point leaves to be resumed: its file
\* holds k whole records, 0 < k < target.
CutNow ==
    IF /\ SessionFile \in DOMAIN store
       /\ store[SessionFile].valid
       /\ Len(store[SessionFile].recs) < Target(scope)
    THEN {SessionFile}
    ELSE {}

\* get_incomplete_session(...), then resume its id and records or make a new
\* id from the clock, which has moved on one tick since the last new id.  The
\* home run also counts its complete sessions here.
SessionBegin ==
    /\ pc = "s_begin"
    /\ IF IncompleteRaises(store, scope)
          \/ (scope = "home" /\ CountRaises(store, scope))
       THEN /\ Terminate
            /\ UNCHANGED <<store, now, faults, histVars>>
       ELSE /\ LET incomplete == get_incomplete_session(store, scope)
               IN  IF incomplete # {}
                   THEN LET last_file == CHOOSE k \in incomplete : TRUE
                        IN  /\ existing_data' = store[last_file].recs
                            /\ session_id' = last_file.sid
                            /\ now' = now
                   ELSE /\ now < MaxClock
                        /\ now' = now + 1
                        /\ session_id' = strftime(now + 1)
                        /\ existing_data' = <<>>
            /\ pc' = "s_create"
            /\ UNCHANGED <<store, faults, orchVars, scope, shorts_data,
                           i, skip_left, success, start_url, exc, driverVars,
                           histVars>>
    /\ UNCHANGED <<anaVars, pairVars>>

\* driver = create_driver(account_id)
CreateDriver ==
    /\ pc = "s_create"
    /\ driver' = "open"
    /\ cursor' = 0
    /\ requests' = {}
    /\ actions' = {}
    /\ pc' = IF scope = "home" THEN "s_load" ELSE "s_url"
    /\ UNCHANGED <<store, now, faults, orchVars, scope, session_id,
                   existing_data, shorts_data, i, skip_left, success, start_url,
                   exc, histVars>>
    /\ UNCHANGED <<anaVars, pairVars>>

\* start_url = get_next_url_for_country(...); session_count = ...: after the
\* driver exists and before `try:`.  The lookups raise when a session file
\* does not parse, when a read fails, or when an interrupt arrives here.
LookupUrl ==
    /\ pc = "s_url"
    /\ \/ /\ CountRaises(store, scope)
          /\ Terminate
          /\ UNCHANGED <<store, now, faults, histVars>>
       \/ /\ Fault
          /\ Terminate
          /\ cut' = cut \cup CutNow
          /\ UNCHANGED <<store, now, persisted, feed_failed, loaded, liked>>
       \/ /\ ~CountRaises(store, scope)
          /\ start_url' = get_next_url_for_country(store, scope)
          /\ pc' = "s_load"
          /\ UNCHANGED <<store, now, faults, orchVars, scope,
                         session_id, existing_data, shorts_data, i, skip_left,
                         success, exc, driverVars, histVars>>
    /\ UNCHANGED <<anaVars, pairVars>>

\* driver.get(start_url); wait_for_shorts_load(driver), which clicks play
\* once the player is present and raises TimeoutException when it is not.
LoadFeed ==
    /\ pc = "s_load"
    /\ \/ /\ actions' = actions \cup {"load", "read", "click_play"}
          /\ cursor' = 0
          /\ requests' = {0}
          /\ skip_left' = Len(existing_data)
          /\ pc' = "s_skip"
          /\ UNCHANGED <<faults, exc>>
       \/ /\ Fault
          /\ actions' = actions \cup {"load", "read"}
          /\ exc' = TRUE
          /\ pc' = "s_finally"
          /\ UNCHANGED <<cursor, requests, skip_left>>
    /\ loaded' = IF scope = "home" \/ SessionFile \in DOMAIN loaded
                 THEN loaded
                 ELSE (SessionFile :> start_url) @@ loaded
    /\ UNCHANGED <<store, now, orchVars, scope, session_id,
                   existing_data, shorts_data, i, success, start_url, driver,
                   persisted, cut, feed_failed, liked>>
    /\ UNCHANGED <<anaVars, pairVars>>

\* swipe_to_next_short: ARROW_DOWN moves the feed on; a failed send_keys is
\* caught and answered False, which no caller reads.
swipe_to_next_short ==
    /\ actions' = actions \cup {"advance"}
    /\ \/ /\ cursor' = cursor + 1
          /\ requests' = requests \cup {cursor + 1}
          /\ UNCHANGED <<faults, feed_failed>>
       \/ /\ Fault
          /\ feed_failed' = TRUE
          /\ UNCHANGED <<cursor, requests>>
    /\ UNCHANGED <<persisted, cut, loaded, liked>>

\* A variant of InitialShortsData that starts every walk with an empty list.
InitialShortsData_Empty(existing) == <<>>

\* view_shorts / view_home_shorts:
\* `shorts_data = existing_data if existing_data else []`
InitialShortsData(existing) == existing

\* A variant of start_idx that walks from the first place whatever the list
\* holds.
start_idx_Zero(shorts) == 0

\* view_shorts / view_home_shorts: `start_idx = len(shorts_data)`
start_idx(shorts) == Len(shorts)

\* `for _ in range(len(existing_data)): swipe_to_next_short(driver)`, then
\* the call of the walker: shorts_data as above, start_idx = its length.
SkipAhead ==
    /\ pc = "s_skip"
    /\ IF skip_left > 0
       THEN /\ swipe_to_next_short
            /\ skip_left' = skip_left - 1
            /\ UNCHANGED <<pc, shorts_data, i>>
       ELSE /\ shorts_data' = InitialShortsData(existing_data)
            /\ i' = start_idx(InitialShortsData(existing_data))
            /\ pc' = "w_check"
            /\ UNCHANGED <<skip_left, faults, cursor, requests, actions,
                           histVars>>
    /\ UNCHANGED <<store, now, orchVars, scope, session_id,
                   existing_data, success, start_url, exc, driver>>
    /\ UNCHANGED <<anaVars, pairVars>>

\* `for i in range(start_idx, count): if not driver.current_url: break`
WalkCheck ==
    /\ pc = "w_check"
    /\ IF i >= Target(scope)
       THEN /\ pc' = "s_success"
            /\ UNCHANGED <<faults, actions, feed_failed>>
       ELSE \/ /\ pc' = "w_extract"
               /\ actions' = actions \cup {"read"}
               /\ UNCHANGED <<faults, feed_failed>>
            \/ /\ Fault
               /\ feed_failed' = TRUE
               /\ pc' = "s_success"
               /\ actions' = actions \cup {"read"}
    /\ UNCHANGED <<store, now, orchVars, scope, session_id,
                   existing_data, shorts_data, i, skip_left, success, start_url,
                   exc, driver, cursor, requests, persisted, cut, loaded, liked>>
    /\ UNCHANGED <<anaVars, pairVars>>

\* metadata = extract_short_metadata(driver, conflict_region);
\* shorts_data.append(metadata).  The history of the likes is kept when
\* `likes` is set.
ExtractTrainOf(likes) ==
    /\ pc = "w_extract"
    /\ scope # "home"
    /\ LET f == PageFields(scope, start_url, cursor, requests)
       IN  IF ExtractRaises(f)
           THEN /\ exc' = TRUE
                /\ pc' = "s_finally"
                /\ actions' = actions \cup {"read"}
                /\ UNCHANGED <<shorts_data, faults, liked>>
           ELSE \E text \in TrainResponses :
                  IF ClassifierRaises(text)
                  THEN /\ Fault
                       /\ exc' = TRUE
                       /\ pc' = "s_finally"
                       /\ actions' = actions \cup {"read"}
                       /\ UNCHANGED <<shorts_data, liked>>
                  ELSE /\ \/ /\ actions' = actions
                                    \cup ExtractActions(is_conflict_related(text))
                             /\ liked' = IF likes /\ is_conflict_related(text)
                                         THEN liked \cup {FeedItem(scope, start_url,
                                                                   cursor)}
                                         ELSE liked
                             /\ UNCHANGED faults
                          \/ /\ is_conflict_related(text)
                             /\ Fault
                             /\ actions' = actions
                                    \cup click_like_Failed(
                                           ExtractActions(is_conflict_related(text)))
                             /\ UNCHANGED liked
                       /\ shorts_data' = Append(shorts_data,
                              ShortMetadata(start_url, cursor,
                                            is_conflict_related(text), f))
                       /\ pc' = "w_open"
                       /\ UNCHANGED exc
    /\ UNCHANGED <<store, now, orchVars, scope, session_id,
                   existing_data, i, skip_left, success, start_url, driver,
                   cursor, requests, persisted, cut, feed_failed, loaded>>
    /\ UNCHANGED <<anaVars, pairVars>>

ExtractTrain == ExtractTrainOf(FALSE)

\* The same with the history of the likes kept.
ExtractTrainLikes == ExtractTrainOf(TRUE)

\* metadata = extract_home_short_metadata(driver); shorts_data.append(metadata),
\* with the classifier answering one of `responses`.
ExtractHomeOf(responses) ==
    /\ pc = "w_extract"
    /\ scope = "home"
    /\ LET f == PageFields(scope, 0, cursor, requests)
       IN  IF ExtractRaises(f)
           THEN /\ exc' = TRUE
                /\ pc' = "s_finally"
                /\ actions' = actions \cup {"read"}
                /\ UNCHANGED <<shorts_data, faults>>
           ELSE \E text \in responses :
                  IF ClassifierRaises(text)
                  THEN /\ Fault
                       /\ exc' = TRUE
                       /\ pc' = "s_finally"
                       /\ actions' = actions \cup {"read"}
                       /\ UNCHANGED shorts_data
                  ELSE /\ actions' = actions
                              \cup ExtractHomeActions(classify_conflict_region(text))
                       /\ shorts_data' = Append(shorts_data,
                              HomeShortMetadata(cursor,
                                                classify_conflict_region(text), f))
                       /\ pc' = "w_open"
                       /\ UNCHANGED <<faults, exc>>
    /\ UNCHANGED <<store, now, orchVars, scope, session_id,
                   existing_data, i, skip_left, success, start_url, driver,
                   cursor, requests, histVars>>
    /\ UNCHANGED <<anaVars, pairVars>>

ExtractHome == ExtractHomeOf(HomeResponses)

\* The same on a feed whose items the classifier relates to no region, or
\* fails on.
ExtractHomeUnrelated == ExtractHomeOf({"NONE", ""})

\* save_session: `with open(session_file, "w") as f:` empties the file.
SaveOpen ==
    /\ pc = "w_open"
    /\ store' = (SessionFile :> Truncated) @@ store
    /\ pc' = "w_dump"
    /\ UNCHANGED <<now, faults, orchVars, scope, session_id,
                   existing_data, shorts_data, i, skip_left, success, start_url,
                   exc, driverVars, histVars>>
    /\ UNCHANGED <<anaVars, pairVars>>

\* save_session: json.dump(shorts_data, f) and the close of the file.
SaveDump ==
    /\ pc = "w_dump"
    /\ store' = [store EXCEPT ![SessionFile] =
                    [valid |-> TRUE, recs |-> shorts_data]]
    /\ persisted' = (SessionFile :> shorts_data) @@ persisted
    /\ pc' = "w_clear"
    /\ UNCHANGED <<cut, feed_failed, loaded, liked>>
    /\ UNCHANGED <<now, faults, orchVars, scope, session_id,
                   existing_data, shorts_data, i, skip_left, success, start_url,
                   exc, driverVars>>
    /\ UNCHANGED <<anaVars, pairVars>>

\* clear_requests(driver); the last item of the session is not swiped.
ClearRequests ==
    /\ pc = "w_clear"
    /\ requests' = {}
    /\ IF i < Target(scope) - 1
       THEN pc' = "w_swipe" /\ i' = i
       ELSE pc' = "w_check" /\ i' = i + 1
    /\ UNCHANGED <<store, now, faults, orchVars, scope, session_id,
                   existing_data, shorts_data, skip_left, success, start_url,
                   exc, driver, cursor, actions, histVars>>
    /\ UNCHANGED <<anaVars, pairVars>>

\* `if i < count - 1: swipe_to_next_short(driver)`, then the next i.
Swipe ==
    /\ pc = "w_swipe"
    /\ swipe_to_next_short
    /\ i' = i + 1
    /\ pc' = "w_check"
    /\ UNCHANGED <<store, now, orchVars, scope, session_id,
                   existing_data, shorts_data, skip_left, success, start_url,
                   exc, driver>>
    /\ UNCHANGED <<anaVars, pairVars>>

\* The walker has returned: the summary is printed and success = True.
SessionSuccess ==
    /\ pc = "s_success"
    /\ success' = TRUE
    /\ pc' = "s_finally"
    /\ UNCHANGED <<store, now, faults, orchVars, scope, session_id,
                   existing_data, shorts_data, i, skip_left, start_url, exc,
                   driverVars, histVars>>
    /\ UNCHANGED <<anaVars, pairVars>>

\* `except KeyboardInterrupt:` an interrupt inside `try:` is caught and the
\* run goes on to `finally`.
Interrupt ==
    /\ pc \in TryRegion
    /\ Fault
    /\ pc' = "s_finally"
    /\ cut' = cut \cup CutNow
    /\ UNCHANGED <<persisted, feed_failed, loaded, liked>>
    /\ UNCHANGED <<store, now, orchVars, scope, session_id,
                   existing_data, shorts_data, i, skip_left, success, start_url,
                   exc, driverVars>>
    /\ UNCHANGED <<anaVars, pairVars>>

\* A variant of Finally that leaves the browser open.
Finally_NoQuit ==
    /\ pc = "s_finally"
    /\ IF exc
       THEN /\ OrchReset
            /\ RunReset
            /\ actions' = {}
       ELSE /\ pc' = "s_return"
            /\ UNCHANGED <<orchVars, scope, session_id, existing_data,
                           shorts_data, i, skip_left, success, start_url, exc,
                           actions>>
    /\ driver' = "leaked"
    /\ DriverGone
    /\ UNCHANGED <<store, now, faults, histVars>>
    /\ UNCHANGED <<anaVars, pairVars>>

\* `finally: driver.quit()`; then `return success`, or the exception that was
\* not a KeyboardInterrupt goes on to the caller, which has no handler.
Finally ==
    /\ pc = "s_finally"
    /\ IF exc
       THEN /\ OrchReset
            /\ RunReset
            /\ actions' = {}
       ELSE /\ pc' = "s_return"
            /\ UNCHANGED <<orchVars, scope, session_id, existing_data,
                           shorts_data, i, skip_left, success, start_url, exc,
                           actions>>
    /\ driver' = "quit"
    /\ DriverGone
    /\ UNCHANGED <<store, now, faults, histVars>>
    /\ UNCHANGED <<anaVars, pairVars>>

\* The process is killed while it runs: no handler and no `finally` runs.
Crash ==
    /\ oPc \notin {"idle", "t_done", "h_done"}
    /\ Fault
    /\ OrchReset
    /\ RunReset
    /\ driver' = IF driver = "open" THEN "killed" ELSE driver
    /\ DriverGone
    /\ actions' = {}
    /\ cut' = cut \cup CutNow
    /\ UNCHANGED <<store, now, persisted, feed_failed, loaded, liked>>
    /\ UNCHANGED <<anaVars, pairVars>>

----------------------------------------------------------------------------
(* Training orchestrator: run_full_experiment, src/experiment.py.           *)

\* A variant of ShouldSkip with a strict comparison with the round.
ShouldSkip_Strict(complete_sessions, round, has_incomplete) ==
    complete_sessions > round /\ ~has_incomplete

\* `if complete_sessions >= round_num and not has_incomplete: continue`
ShouldSkip(complete_sessions, round, has_incomplete) ==
    complete_sessions >= round /\ ~has_incomplete

\* A variant of NextSlot with the loops exchanged: every round of a region
\* before the next region.
NextSlot_RegionMajor ==
    IF round_num < SESSIONS_PER_COUNTRY
    THEN /\ round_num' = round_num + 1
         /\ country_idx' = country_idx
    ELSE IF country_idx < Len(country_order)
    THEN /\ round_num' = 1
         /\ country_idx' = country_idx + 1
    ELSE /\ round_num' = SESSIONS_PER_COUNTRY + 1
         /\ country_idx' = 1

\* A variant of NextSlot that stays at a region until the region has the
\* complete sessions of the round.
NextSlot_UntilComplete ==
    IF get_session_count_for_country(store, country_order[country_idx])
          < round_num
    THEN /\ country_idx' = country_idx
         /\ round_num' = round_num
    ELSE IF country_idx < Len(country_order)
    THEN /\ country_idx' = country_idx + 1
         /\ round_num' = round_num
    ELSE /\ country_idx' = 1
         /\ round_num' = round_num + 1

\* The next (round_num, country_idx) of the two nested loops.
NextSlot ==
    IF country_idx < Len(country_order)
    THEN /\ country_idx' = country_idx + 1
         /\ round_num' = round_num
    ELSE /\ country_idx' = 1
         /\ round_num' = round_num + 1

\* The call, up to print_progress(account_id), which counts the sessions of
\* every region of the plan.
StartFull ==
    /\ oPc = "idle"
    /\ pc = "idle"
    /\ IF \E c \in Regions : CountRaises(store, c)
       THEN UNCHANGED <<orchVars>>
       ELSE /\ oPc' = "t_loop"
            /\ round_num' = 1
            /\ country_idx' = 1
            /\ session_counter' = 0
            /\ skipped' = 0
            /\ UNCHANGED sessions_run
    /\ UNCHANGED <<store, now, faults, runVars, driverVars, histVars>>
    /\ UNCHANGED <<anaVars, pairVars>>

\* One iteration of `for country_idx, country in enumerate(country_order)`
\* up to the call of run_capture_session, or the end of the rounds.
TrainLoop ==
    /\ oPc = "t_loop"
    /\ IF round_num > SESSIONS_PER_COUNTRY
       THEN /\ oPc' = "t_done"
            /\ UNCHANGED <<round_num, country_idx, session_counter, skipped,
                           sessions_run, runVars, driverVars>>
       ELSE LET country == country_order[country_idx]
            IN  IF CountRaises(store, country)
                THEN Terminate
                ELSE /\ session_counter' = session_counter + 1
                     /\ IF ShouldSkip(get_session_count_for_country(store, country),
                                      round_num,
                                      get_incomplete_session(store, country) # {})
                        THEN /\ skipped' = skipped + 1
                             /\ NextSlot
                             /\ UNCHANGED <<oPc, runVars>>
                        ELSE /\ oPc' = "t_call"
                             /\ pc' = "s_begin"
                             /\ scope' = country
                             /\ UNCHANGED <<skipped, round_num, country_idx,
                                            session_id, existing_data,
                                            shorts_data, i, skip_left, success,
                                            start_url, exc>>
                     /\ UNCHANGED <<sessions_run, driverVars>>
    /\ UNCHANGED <<store, now, faults, histVars>>
    /\ UNCHANGED <<anaVars, pairVars>>

\* `success = run_capture_session(account_id, country)` has returned; a
\* failed session is reported and the loop goes on.
TrainAfterSession ==
    /\ oPc = "t_call"
    /\ pc = "s_return"
    /\ oPc' = "t_loop"
    /\ NextSlot
    /\ RunReset
    /\ actions' = {}
    /\ UNCHANGED <<store, now, faults, session_counter, skipped, sessions_run,
                   driver, cursor, requests, histVars>>
    /\ UNCHANGED <<anaVars, pairVars>>

\* The process ends after `return True`.
TrainExit ==
    /\ oPc = "t_done"
    /\ OrchReset
    /\ UNCHANGED <<store, now, faults, runVars, driverVars, histVars>>
    /\ UNCHANGED <<anaVars, pairVars>>

----------------------------------------------------------------------------
(* Measurement orchestrator: run_home_feed, src/home.py.                    *)

\* The call, up to print_home_progress(account_id).
StartHome ==
    /\ oPc = "idle"
    /\ pc = "idle"
    /\ IF CountRaises(store, "home")
       THEN UNCHANGED <<orchVars>>
       ELSE /\ oPc' = "h_while"
            /\ sessions_run' = 0
            /\ UNCHANGED <<round_num, country_idx, session_counter, skipped>>
    /\ UNCHANGED <<store, now, faults, runVars, driverVars, histVars>>
    /\ UNCHANGED <<anaVars, pairVars>>

\* `while get_home_session_count(account_id) < config.HOME_SESSIONS or
\*        get_incomplete_home_session(account_id):`
HomeWhile ==
    /\ oPc = "h_while"
    /\ IF CountRaises(store, "home")
       THEN Terminate
       ELSE /\ IF \/ get_session_count_for_country(store, "home") < HOME_SESSIONS
                  \/ get_incomplete_session(store, "home") # {}
               THEN /\ oPc' = "h_call"
                    /\ pc' = "s_begin"
                    /\ scope' = "home"
               ELSE /\ oPc' = "h_done"
                    /\ UNCHANGED <<pc, scope>>
            /\ UNCHANGED <<round_num, country_idx, session_counter, skipped,
                           sessions_run, session_id, existing_data, shorts_data,
                           i, skip_left, success, start_url, exc, driverVars>>
    /\ UNCHANGED <<store, now, faults, histVars>>
    /\ UNCHANGED <<anaVars, pairVars>>

\* `success = run_home_feed_session(account_id)` has returned:
\* sessions_run += 1, and the loop is left once enough sessions are complete.
HomeAfterSession ==
    /\ oPc = "h_call"
    /\ pc = "s_return"
    /\ IF CountRaises(store, "home")
       THEN Terminate
       ELSE /\ sessions_run' = sessions_run + 1
            /\ IF get_session_count_for_country(store, "home") >= HOME_SESSIONS
               THEN oPc' = "h_done"
               ELSE oPc' = "h_while"
            /\ RunReset
            /\ actions' = {}
            /\ UNCHANGED <<round_num, country_idx, session_counter, skipped,
                           driver, cursor, requests>>
    /\ UNCHANGED <<store, now, faults, histVars>>
    /\ UNCHANGED <<anaVars, pairVars>>

\* The process ends after `return True`.
HomeExit ==
    /\ oPc = "h_done"
    /\ OrchReset
    /\ UNCHANGED <<store, now, faults, runVars, driverVars, histVars>>
    /\ UNCHANGED <<anaVars, pairVars>>

----------------------------------------------------------------------------
(* Statistical analysis of the home-feed sessions, src/analysis.py.         *)

\* The most home session files the analysis is given.
MaxAnalysisFiles == 2

\* ACLED_SCORES, in thousandths
ACLED_SCORES ==
    [c \in {"Palestine", "Myanmar", "Ukraine", "Mexico"} |->
        CASE c = "Palestine" -> 2571
          [] c = "Myanmar" -> 1900
          [] c = "Ukraine" -> 1543
          [] c = "Mexico" -> 1045]

\* The labels of the records the analysis is given: two regions with a
\* score, one without, and None.
AnalysisLabels ==
    {classify_conflict_region(text) :
        text \in {"PALESTINE", "MEXICO", "BRAZIL", "NONE"}}

\* The record lists a home-feed run writes: item n of the feed at place n.
HomeRecordLists ==
    UNION {{[n \in 1..len |->
                HomeShortMetadata(n - 1, label[n],
                                  PageFields("home", 0, n - 1, {n - 1}))] :
            label \in [1..len -> AnalysisLabels]} :
           len \in 1..HOME_SHORTS_PER_SESSION}

\* The data directories the analysis is run on: home session files, whole
\* or cut short by a stopped write.
AnalysisStores ==
    LET keys == {FileKey("home", strftime(t)) : t \in 1..MaxAnalysisFiles}
        contents == {Truncated}
                    \cup {[valid |-> TRUE, recs |-> r] : r \in HomeRecordLists}
    IN  UNION {[K -> contents] : K \in SUBSET keys}

InitAnalysis ==
    /\ store \in AnalysisStores
    /\ ProcessInit

\* The orders in which glob may enumerate a set of files.
Orders(S) ==
    {f \in [1..Cardinality(S) -> S] : \A a, b \in DOMAIN f : f[a] = f[b] => a = b}

\* json.load(f) raises on a file that is not valid JSON.
LoadRaises(st, files) == \E n \in 1..Len(files) : ~Parses(st, files[n])

\* A variant of load_home_feed_data that keeps the records of the file
\* enumerated last instead of extending the list.
load_home_feed_data_Last(st, files) ==
    IF files = <<>> THEN <<>> ELSE st[files[Len(files)]].recs

\* load_home_feed_data: the records of every home file, in the order the
\* files are enumerated (the profiles' lists joined, as run_analysis does).
RECURSIVE load_home_feed_data(_, _)
load_home_feed_data(st, files) ==
    IF files = <<>> THEN <<>>
    ELSE st[Head(files)].recs \o load_home_feed_data(st, Tail(files))

\* How many records carry the label.
Labelled(shorts, label) ==
    Cardinality({n \in 1..Len(shorts) : shorts[n].related_country = label})

\* get_conflict_counts: `if country and country in counts: counts[country] += 1`
get_conflict_counts(shorts) ==
    [c \in DOMAIN ACLED_SCORES |-> Labelled(shorts, c)]

\* sum(counts.values())
RECURSIVE SumValues(_)
SumValues(f) ==
    IF DOMAIN f = {} THEN 0
    ELSE LET c == CHOOSE x \in DOMAIN f : TRUE
         IN  f[c] + SumValues([x \in DOMAIN f \ {c} |-> f[x]])

\* Floating-point numbers: m * 2^e with a mantissa m of MantissaBits bits
\* (or m = 0), every operation rounded to the nearest, ties to even, as
\* IEEE 754 does; the width stands for the 53 bits of float64.
MantissaBits == 12

RECURSIVE BitLen(_)
BitLen(n) == IF n = 0 THEN 0 ELSE 1 + BitLen(n \div 2)

\* The float nearest to n * 2^e (n > 0), or, when `above`, to a value
\* between n * 2^e and (n + 1) * 2^e.
RoundFloat(n, e, above) ==
    LET k == BitLen(n)
    IN  IF k <= MantissaBits
        THEN [m |-> n * 2^(MantissaBits - k), e |-> e - (MantissaBits - k)]
        ELSE LET s == k - MantissaBits
                 q == n \div 2^s
                 r == n % 2^s
                 half == 2^(s - 1)
                 up == r > half \/ (r = half /\ (above \/ q % 2 = 1))
                 q2 == IF up THEN q + 1 ELSE q
             IN  IF q2 = 2^MantissaBits
                 THEN [m |-> 2^(MantissaBits - 1), e |-> e + s + 1]
                 ELSE [m |-> q2, e |-> e + s]

\* The float nearest to (n / d) * 2^e, for n, d > 0.
FloatRatio(n, d, e) ==
    LET want == MantissaBits + 2 + BitLen(d) - BitLen(n)
        t == IF want > 0 THEN want ELSE 0
    IN  RoundFloat((n * 2^t) \div d, e - t, (n * 2^t) % d # 0)

FloatDiv(a, b) == FloatRatio(a.m, b.m, a.e - b.e)

\* float * int
FloatTimes(a, k) ==
    IF k = 0 \/ a.m = 0 THEN [m |-> 0, e |-> 0]
    ELSE RoundFloat(a.m * k, a.e, FALSE)

FloatAdd(a, b) ==
    IF a.m = 0 THEN b
    ELSE IF b.m = 0 THEN a
    ELSE LET low == IF a.e < b.e THEN a.e ELSE b.e
         IN  RoundFloat(a.m * 2^(a.e - low) + b.m * 2^(b.e - low), low, FALSE)

\* sum(...) of the floats of a sequence, left to right
RECURSIVE FloatSum(_)
FloatSum(fs) ==
    IF fs = <<>> THEN [m |-> 0, e |-> 0]
    ELSE FloatAdd(FloatSum(SubSeq(fs, 1, Len(fs) - 1)), fs[Len(fs)])

\* The float is the integer k.
FloatIsInt(a, k) ==
    IF a.m = 0 THEN k = 0
    ELSE IF a.e >= 0 THEN a.m * 2^a.e = k
    ELSE a.m = k * 2^(0 - a.e)

\* A float with a sign, or NaN.
NaN == [nan |-> TRUE, neg |-> FALSE, m |-> 0, e |-> 0]

Signed(neg, a) == [nan |-> FALSE, neg |-> neg /\ a.m # 0, m |-> a.m, e |-> a.e]

\* The float of an integer k >= 0 (observed is an integer array).
FloatFromInt(k) ==
    IF k = 0 THEN [m |-> 0, e |-> 0] ELSE RoundFloat(k, 0, FALSE)

\* a - b
FloatSub(a, b) ==
    IF b.m = 0 THEN Signed(FALSE, a)
    ELSE IF a.m = 0 THEN Signed(TRUE, b)
    ELSE LET low == IF a.e < b.e THEN a.e ELSE b.e
             x == a.m * 2^(a.e - low)
             y == b.m * 2^(b.e - low)
         IN  IF x = y THEN Signed(FALSE, [m |-> 0, e |-> 0])
             ELSE IF x > y THEN Signed(FALSE, RoundFloat(x - y, low, FALSE))
             ELSE Signed(TRUE, RoundFloat(y - x, low, FALSE))

\* x ** 2
FloatSquare(x) ==
    IF x.nan THEN NaN
    ELSE IF x.m = 0 THEN Signed(FALSE, [m |-> 0, e |-> 0])
    ELSE Signed(FALSE, RoundFloat(x.m * x.m, x.e + x.e, FALSE))

\* The largest integer whose square is at most n.
RECURSIVE ISqrt(_)
ISqrt(n) ==
    IF n < 2 THEN n
    ELSE LET s == 2 * ISqrt(n \div 4)
         IN  IF (s + 1) * (s + 1) <= n THEN s + 1 ELSE s

\* np.sqrt(a), correctly rounded
FloatSqrt(a) ==
    IF a.m = 0 THEN [m |-> 0, e |-> 0]
    ELSE LET t == IF (a.e - MantissaBits - 2) % 2 = 0
                  THEN MantissaBits + 2 ELSE MantissaBits + 3
             n == a.m * 2^t
             s == ISqrt(n)
         IN  RoundFloat(s, (a.e - t) \div 2, s * s # n)

\* x / b for a signed x and b >= 0: 0.0 / 0.0 is nan.  (A nonzero x over
\* 0.0 is an infinity; it does not arise, expected being 0.0 only when
\* every count is 0.)
FloatOver(x, b) ==
    IF x.nan \/ b.m = 0 THEN NaN
    ELSE IF x.m = 0 THEN x
    ELSE Signed(x.neg, FloatRatio(x.m, b.m, x.e - b.e))

\* a > b for floats a, b >= 0
FloatGreater(a, b) ==
    /\ a.m # 0
    /\ \/ b.m = 0
       \/ BitLen(a.m) + a.e > BitLen(b.m) + b.e
       \/ /\ BitLen(a.m) + a.e = BitLen(b.m) + b.e
          /\ a.m * 2^(MantissaBits - BitLen(a.m))
                > b.m * 2^(MantissaBits - BitLen(b.m))

\* abs(x) > lit, False for nan
AbsGreater(x, lit) == ~x.nan /\ FloatGreater(x, lit)

\* x > lit and x < -lit for a literal lit > 0, False for nan
Greater(x, lit) == ~x.nan /\ ~x.neg /\ FloatGreater(x, lit)

Less(x, lit) == ~x.nan /\ x.neg /\ FloatGreater(x, lit)

\* countries = list(ACLED_SCORES.keys())
countries == <<"Palestine", "Myanmar", "Ukraine", "Mexico">>

\* The score of a region as the float its literal denotes.
ScoreFloat(c) == FloatRatio(ACLED_SCORES[c], 1000, 0)

\* ACLED_TOTAL = sum(ACLED_SCORES.values())
ACLED_TOTAL ==
    FloatSum([n \in 1..Len(countries) |-> ScoreFloat(countries[n])])

\* A variant of ACLED_NORMALIZED with the same proportion for every region.
ACLED_NORMALIZED_Uniform(c) == FloatRatio(1, Len(countries), 0)

\* ACLED_NORMALIZED = {k: v / ACLED_TOTAL for k, v in ACLED_SCORES.items()}
ACLED_NORMALIZED(c) == FloatDiv(ScoreFloat(c), ACLED_TOTAL)

\* A variant of chisquare whose terms divide by the observed count.
chisquare_Neyman(observed, expected) ==
    LET terms == [c \in DOMAIN observed |->
                     FloatOver(FloatSquare(FloatSub(FloatFromInt(observed[c]),
                                                    expected[c])),
                               FloatFromInt(observed[c]))]
    IN  IF \E c \in DOMAIN observed : terms[c].nan THEN NaN
        ELSE Signed(FALSE, FloatSum([n \in 1..Len(countries) |->
                                        terms[countries[n]]]))

\* stats.chisquare(observed, f_exp=expected): the sum of the terms
\* (f_obs - f_exp)**2 / f_exp; a nan term makes the sum nan.
chisquare(observed, expected) ==
    LET terms == [c \in DOMAIN observed |->
                     FloatOver(FloatSquare(FloatSub(FloatFromInt(observed[c]),
                                                    expected[c])),
                               expected[c])]
    IN  IF \E c \in DOMAIN observed : terms[c].nan THEN NaN
        ELSE Signed(FALSE, FloatSum([n \in 1..Len(countries) |->
                                        terms[countries[n]]]))

\* The body of run_chi_square_analysis for given expected proportions:
\* expected = expected_props * total_observed, chi2 from stats.chisquare,
\* df = len(countries) - 1 and
\* standardized_residuals = (observed - expected) / np.sqrt(expected).
chi_square_of(counts, expected_props) ==
    LET total_observed == SumValues(counts)
        expected == [c \in DOMAIN ACLED_SCORES |->
                        FloatTimes(expected_props[c], total_observed)]
    IN  [chi2 |-> chisquare(counts, expected),
         df |-> Len(countries) - 1,
         observed |-> counts,
         expected |-> expected,
         standardized_residuals |->
             [c \in DOMAIN ACLED_SCORES |->
                 FloatOver(FloatSub(FloatFromInt(counts[c]), expected[c]),
                           FloatSqrt(expected[c]))]]

\* run_chi_square_analysis: expected_props are the ACLED_NORMALIZED values.
run_chi_square_analysis(counts) ==
    chi_square_of(counts, [c \in DOMAIN ACLED_SCORES |-> ACLED_NORMALIZED(c)])

\* run_analysis: data = load_home_feed_data(); `if not data: return`; the
\* profiles' records are joined into all_shorts.
AnalysisLoad ==
    /\ aPc = "a_idle"
    /\ \E files \in Orders(Glob(store, "home")) :
          IF LoadRaises(store, files)
          THEN /\ aPc' = "a_raised"
               /\ UNCHANGED all_shorts
          ELSE IF files = <<>>
          THEN /\ aPc' = "a_nodata"
               /\ UNCHANGED all_shorts
          ELSE /\ aPc' = "a_loaded"
               /\ all_shorts' = load_home_feed_data(store, files)
    /\ UNCHANGED <<store, now, faults, orchVars, runVars, driverVars, histVars,
                   pairVars,
                   observed_counts, chi_square_results, printed>>

\* observed_counts = get_conflict_counts(all_shorts); n_conflict is their
\* sum, and the analysis stops when it is 0.
AnalysisCount ==
    /\ aPc = "a_loaded"
    /\ observed_counts' = get_conflict_counts(all_shorts)
    /\ aPc' = IF SumValues(get_conflict_counts(all_shorts)) = 0
              THEN "a_noconflict" ELSE "a_counted"
    /\ UNCHANGED <<store, now, faults, orchVars, runVars, driverVars, histVars,
                   pairVars,
                   all_shorts, chi_square_results, printed>>

\* chi_square_results = run_chi_square_analysis(observed_counts)
AnalysisChiSquare ==
    /\ aPc = "a_counted"
    /\ chi_square_results' = run_chi_square_analysis(observed_counts)
    /\ aPc' = "a_tested"
    /\ UNCHANGED <<store, now, faults, orchVars, runVars, driverVars, histVars,
                   pairVars,
                   all_shorts, observed_counts, printed>>

\* The float a decimal literal n/d of the source denotes.
Literal(n, d) == FloatRatio(n, d, 0)

\* flag = "**" if abs(resid) > 2 else ("*" if abs(resid) > 1.96 else "")
Flag(resid) ==
    IF AbsGreater(resid, Literal(2, 1)) THEN "**"
    ELSE IF AbsGreater(resid, Literal(196, 100)) THEN "*"
    ELSE ""

\* sorted(over_rep, key=lambda x: -x[1]) and sorted(under_rep, key=lambda
\* x: x[1]): both put the larger |resid| first and keep the order of ties.
RECURSIVE SortByMagnitude(_, _)
SortByMagnitude(list, resid) ==
    IF list = <<>> THEN <<>>
    ELSE LET rest == SortByMagnitude(SubSeq(list, 1, Len(list) - 1), resid)
             c == list[Len(list)]
             behind == {j \in 1..Len(rest) :
                          FloatGreater(resid[c], resid[rest[j]])}
             k == IF behind = {} THEN Len(rest) + 1
                  ELSE CHOOSE j \in behind : \A j2 \in behind : j <= j2
         IN  SubSeq(rest, 1, k - 1) \o <<c>> \o SubSeq(rest, k, Len(rest))

\* A variant of IsOver with the bound included.
IsOver_Inclusive(resid) ==
    ~resid.nan /\ ~resid.neg /\ ~FloatGreater(Literal(196, 100), resid)

\* `if resid > 1.96: over_rep.append(...)`
IsOver(resid) == Greater(resid, Literal(196, 100))

\* `elif resid < -1.96: under_rep.append(...)`
IsUnder(resid) == ~IsOver(resid) /\ Less(resid, Literal(196, 100))

\* print_results: the flag of every region in the table, and the lists of
\* the over- and under-represented regions as they are printed.
print_results(results) ==
    LET resid == results.standardized_residuals
    IN  [flag |-> [c \in DOMAIN ACLED_SCORES |-> Flag(resid[c])],
         over_rep |-> SortByMagnitude(
                          SelectSeq(countries, LAMBDA c : IsOver(resid[c])),
                          resid),
         under_rep |-> SortByMagnitude(
                           SelectSeq(countries, LAMBDA c : IsUnder(resid[c])),
                           resid)]

\* print_results(observed_counts, chi_square_results, ...)
AnalysisPrint ==
    /\ aPc \in {"a_tested", "a_given"}
    /\ printed' = print_results(chi_square_results)
    /\ aPc' = "a_printed"
    /\ UNCHANGED <<store, now, faults, orchVars, runVars, driverVars, histVars,
                   pairVars,
                   all_shorts, observed_counts, chi_square_results>>

\* The analysis process ends.
AnalysisExit ==
    /\ aPc \in {"a_raised", "a_nodata", "a_noconflict", "a_printed"}
    /\ aPc' = "a_idle"
    /\ all_shorts' = <<>>
    /\ observed_counts' = <<>>
    /\ chi_square_results' = <<>>
    /\ printed' = <<>>
    /\ UNCHANGED <<store, now, faults, orchVars, runVars, driverVars, histVars, pairVars>>

\* The functions of the analysis called by themselves:
\* run_chi_square_analysis on any counts of up to MaxCount a region, and
\* print_results on results with any of the residuals of ResidualValues.
MaxCount == 2

\* Residuals, in hundredths: at, just under and just over the bounds.
ResidualValues ==
    {Signed(neg, IF h = 0 THEN [m |-> 0, e |-> 0] ELSE Literal(h, 100)) :
        neg \in BOOLEAN, h \in {0, 195, 196, 197, 258, 259}}

InitDirect ==
    /\ store = <<>>
    /\ SessionInit
    /\ all_shorts = <<>>
    /\ printed = <<>>
    /\ walker = <<>> /\ touched = <<>> /\ own = <<>>
    /\ \/ /\ aPc = "a_counted"
          /\ observed_counts \in [DOMAIN ACLED_SCORES -> 0..MaxCount]
          /\ chi_square_results = <<>>
       \/ /\ aPc = "a_given"
          /\ observed_counts = <<>>
          /\ \E r \in [DOMAIN ACLED_SCORES -> ResidualValues] :
                chi_square_results = [standardized_residuals |-> r]

----------------------------------------------------------------------------
(* Two session runs side by side on one data directory.  The file names are *)
(* kept as their parts, and the steps are those of run_capture_session and  *)
(* run_home_feed_session that read the clock, the directory or the browser  *)
(* profile; the classifier's answer is fixed.                               *)

Walkers == {1, 2}

Other(w) == 3 - w

\* A variant of AccountTokens in which every account id reads the same.
AccountTokens_Same(a) == <<"profile", "1">>

\* An account id as the parts between its underscores.
AccountTokens(a) ==
    CASE a = "test" -> <<"test">>
      [] a = "profile_1" -> <<"profile", "1">>
      [] a = "profile_2" -> <<"profile", "2">>
      [] a = "profile_3" -> <<"profile", "3">>
      [] a = "profile_4" -> <<"profile", "4">>
      [] a = "profile_5" -> <<"profile", "5">>

\* config.OUTPUT_DIR / f"{account_id}_{region}_{session_id}.json": the parts
\* before the session id, and the session id.
FileName(a, sc, sid) == [parts |-> AccountTokens(a) \o <<sc>>, sid |-> sid]

\* config.OUTPUT_DIR.glob(f"{account_id}_{sc}_*.json"): the names that begin
\* with the parts of the pattern.
GlobNames(dir, a, sc) ==
    LET pattern == AccountTokens(a) \o <<sc>>
    IN  {n \in DOMAIN dir :
            /\ Len(pattern) <= Len(n.parts)
            /\ \A j \in 1..Len(pattern) : pattern[j] = n.parts[j]}

\* The files the glob of an account and scope yields, under the keys the
\* session-store functions use.
Listing(dir, a, sc) ==
    [k \in {FileKey(sc, n.sid) : n \in GlobNames(dir, a, sc)} |->
        dir[CHOOSE n \in GlobNames(dir, a, sc) : n.sid = k.sid]]

\* The file of the session a walker is running.
WalkerFile(w) ==
    FileName(walker[w].account, walker[w].scope, walker[w].session_id)

\* The names of the listing whose files a function that loads every file
\* opens, and the one get_incomplete_session opens.
AllNames(w) == GlobNames(store, walker[w].account, walker[w].scope)

LastName(w) ==
    LET view == Listing(store, walker[w].account, walker[w].scope)
    IN  IF DOMAIN view = {} THEN {}
        ELSE {n \in AllNames(w) : n.sid = LastFile(view, walker[w].scope).sid}

\* The runs the model sets side by side: walker 1 trains profile_1 on
\* Palestine; walker 2 does the same, or trains or measures profile_2.
SecondWalkers ==
    {<<"profile_1", "Palestine">>, <<"profile_2", "Palestine">>,
     <<"profile_2", "home">>}

\* The data directories they start on: empty, or holding a session of
\* profile_1 for Palestine with one record, begun a tick before the first.
PairStores ==
    {<<>>,
     FileName("profile_1", "Palestine", strftime(0 - 1)) :>
         [valid |-> TRUE,
          recs |-> <<ShortMetadata(0, 0, TRUE,
                                   PageFields("Palestine", 0, 0, {0}))>>]}

InitPair ==
    /\ store \in PairStores
    /\ SessionInit
    /\ aPc = "a_idle"
    /\ all_shorts = <<>> /\ observed_counts = <<>>
    /\ chi_square_results = <<>> /\ printed = <<>>
    /\ \E second \in SecondWalkers :
          walker = [w \in Walkers |->
                      [account |-> IF w = 1 THEN "profile_1" ELSE second[1],
                       scope |-> IF w = 1 THEN "Palestine" ELSE second[2],
                       pc |-> "p_begin", session_id |-> NoSid,
                       shorts_data |-> <<>>, start_url |-> 0,
                       driver |-> "none"]]
    /\ touched = [w \in Walkers |-> [read |-> {}, written |-> {}]]
    /\ own = [w \in Walkers |->
                [n \in GlobNames(store, walker[w].account, walker[w].scope) |->
                    store[n]]]

\* The clock moves on.
PairTick ==
    /\ walker # <<>>
    /\ now < MaxClock
    /\ now' = now + 1
    /\ UNCHANGED <<store, faults, orchVars, runVars, driverVars, histVars,
                   anaVars, pairVars>>

\* run_capture_session / run_home_feed_session up to create_driver: the
\* incomplete session is looked up (the last file is opened; the home run
\* also counts its complete sessions, opening every file) and resumed, or a
\* new session id is made from the clock.
PairBegin(w) ==
    /\ walker # <<>>
    /\ walker[w].pc = "p_begin"
    /\ LET sc == walker[w].scope
           view == Listing(store, walker[w].account, sc)
           opened == IF sc = "home" THEN AllNames(w) ELSE LastName(w)
           incomplete == get_incomplete_session(view, sc)
       IN  /\ touched' = [touched EXCEPT ![w].read = @ \cup opened]
           /\ IF IncompleteRaises(view, sc)
                 \/ (sc = "home" /\ CountRaises(view, sc))
              THEN walker' = [walker EXCEPT ![w].pc = "p_raised"]
              ELSE IF incomplete # {}
              THEN LET last_file == CHOOSE k \in incomplete : TRUE
                   IN  walker' = [walker EXCEPT
                                     ![w].pc = "p_create",
                                     ![w].session_id = last_file.sid,
                                     ![w].shorts_data = view[last_file].recs]
              ELSE walker' = [walker EXCEPT
                                 ![w].pc = "p_create",
                                 ![w].session_id = strftime(now)]
    /\ UNCHANGED <<store, now, faults, orchVars, runVars, driverVars, histVars,
                   anaVars, own>>

\* driver = create_driver(account_id).  While the other run's browser holds
\* the same profile directory, the browser may start or may refuse to.
PairCreateDriver(w) ==
    /\ walker # <<>>
    /\ walker[w].pc = "p_create"
    /\ \/ walker' = [walker EXCEPT
                        ![w].driver = "open",
                        ![w].pc = IF walker[w].scope = "home"
                                  THEN "p_walk" ELSE "p_url"]
       \/ /\ walker[Other(w)].account = walker[w].account
          /\ walker[Other(w)].driver = "open"
          /\ walker' = [walker EXCEPT ![w].pc = "p_raised"]
    /\ UNCHANGED <<store, now, faults, orchVars, runVars, driverVars, histVars,
                   anaVars, touched, own>>

\* start_url = get_next_url_for_country(...) and the session count: every
\* file of the listing is opened, and one that does not parse raises.
PairLookupUrl(w) ==
    /\ walker # <<>>
    /\ walker[w].pc = "p_url"
    /\ LET sc == walker[w].scope
           view == Listing(store, walker[w].account, sc)
       IN  /\ touched' = [touched EXCEPT ![w].read = @ \cup AllNames(w)]
           /\ IF CountRaises(view, sc)
              THEN walker' = [walker EXCEPT ![w].pc = "p_raised",
                                            ![w].driver = "leaked"]
              ELSE walker' = [walker EXCEPT
                                 ![w].pc = "p_walk",
                                 ![w].start_url =
                                     get_next_url_for_country(view, sc)]
    /\ UNCHANGED <<store, now, faults, orchVars, runVars, driverVars, histVars,
                   anaVars, own>>

\* view_shorts / view_home_shorts: the record of the next item is appended.
PairExtract(w) ==
    /\ walker # <<>>
    /\ walker[w].pc = "p_walk"
    /\ Len(walker[w].shorts_data) < Target(walker[w].scope)
    /\ LET sc == walker[w].scope
           pos == Len(walker[w].shorts_data)
           seed == walker[w].start_url
           metadata ==
               IF sc = "home"
               THEN HomeShortMetadata(pos, "None",
                                      PageFields(sc, seed, pos, {pos}))
               ELSE ShortMetadata(seed, pos, TRUE,
                                  PageFields(sc, seed, pos, {pos}))
       IN  walker' = [walker EXCEPT
                         ![w].shorts_data = Append(@, metadata),
                         ![w].pc = "p_open"]
    /\ UNCHANGED <<store, now, faults, orchVars, runVars, driverVars, histVars,
                   anaVars, touched, own>>

\* save_session: open(session_file, "w")
PairSaveOpen(w) ==
    /\ walker # <<>>
    /\ walker[w].pc = "p_open"
    /\ store' = (WalkerFile(w) :> Truncated) @@ store
    /\ own' = [own EXCEPT ![w] = (WalkerFile(w) :> Truncated) @@ @]
    /\ touched' = [touched EXCEPT ![w].written = @ \cup {WalkerFile(w)}]
    /\ walker' = [walker EXCEPT ![w].pc = "p_dump"]
    /\ UNCHANGED <<now, faults, orchVars, runVars, driverVars, histVars,
                   anaVars>>

\* save_session: json.dump(shorts_data, f) and the close of the file.
PairSaveDump(w) ==
    /\ walker # <<>>
    /\ walker[w].pc = "p_dump"
    /\ LET content == [valid |-> TRUE, recs |-> walker[w].shorts_data]
       IN  /\ store' = (WalkerFile(w) :> content) @@ store
           /\ own' = [own EXCEPT ![w] = (WalkerFile(w) :> content) @@ @]
    /\ walker' = [walker EXCEPT ![w].pc = "p_walk"]
    /\ UNCHANGED <<now, faults, orchVars, runVars, driverVars, histVars,
                   anaVars, touched>>

\* The walker has returned; `finally: driver.quit()`.
PairFinish(w) ==
    /\ walker # <<>>
    /\ walker[w].pc = "p_walk"
    /\ Len(walker[w].shorts_data) >= Target(walker[w].scope)
    /\ walker' = [walker EXCEPT ![w].pc = "p_done", ![w].driver = "quit"]
    /\ UNCHANGED <<store, now, faults, orchVars, runVars, driverVars, histVars,
                   anaVars, touched, own>>

----------------------------------------------------------------------------
(* Specifications.                                                          *)

SessionStep ==
    \/ SessionBegin
    \/ CreateDriver
    \/ LoadFeed
    \/ SkipAhead
    \/ WalkCheck
    \/ SaveOpen
    \/ SaveDump
    \/ ClearRequests
    \/ Swipe
    \/ SessionSuccess
    \/ Interrupt
    \/ Finally
    \/ Crash

\* The training phase of one profile.
Next ==
    \/ StartFull
    \/ TrainLoop
    \/ TrainAfterSession
    \/ TrainExit
    \/ LookupUrl
    \/ ExtractTrain
    \/ SessionStep

Spec == Init /\ [][Next]_vars

\* The training phase with the history of the likes.
NextLikes ==
    \/ StartFull
    \/ TrainLoop
    \/ TrainAfterSession
    \/ TrainExit
    \/ LookupUrl
    \/ ExtractTrainLikes
    \/ SessionStep

SpecLikes == Init /\ [][NextLikes]_vars

\* The measurement phase of one profile.
NextHome ==
    \/ StartHome
    \/ HomeWhile
    \/ HomeAfterSession
    \/ HomeExit
    \/ ExtractHome
    \/ SessionStep

SpecHome == Init /\ [][NextHome]_vars

\* The measurement phase where the process is always scheduled: a step the
\* program can take is taken in the end.  The faults of the environment are
\* finitely many (MaxFaults), so a session run that is retried again and
\* again completes its session in the end.  Which region an item is related
\* to plays no part in the loop: the feed here has unrelated items only.
NextHomeFair ==
    \/ StartHome
    \/ HomeWhile
    \/ HomeAfterSession
    \/ HomeExit
    \/ ExtractHomeUnrelated
    \/ SessionStep

SpecHomeFair == Init /\ [][NextHomeFair]_vars /\ WF_vars(NextHomeFair)

\* The analysis of one data directory.
NextAnalysis ==
    \/ AnalysisLoad
    \/ AnalysisCount
    \/ AnalysisChiSquare
    \/ AnalysisPrint
    \/ AnalysisExit

SpecAnalysis == InitAnalysis /\ [][NextAnalysis]_vars

NextDirect ==
    \/ AnalysisChiSquare
    \/ AnalysisPrint
    \/ AnalysisExit

SpecDirect == InitDirect /\ [][NextDirect]_vars

NextPair ==
    \/ PairTick
    \/ \E w \in Walkers :
          \/ PairBegin(w)
          \/ PairCreateDriver(w)
          \/ PairLookupUrl(w)
          \/ PairExtract(w)
          \/ PairSaveOpen(w)
          \/ PairSaveDump(w)
          \/ PairFinish(w)

SpecPair == InitPair /\ [][NextPair]_vars

----------------------------------------------------------------------------
(* The progress reports: check_progress.py and check_home_progress.py.      *)

\* The records of the files of a list that parse, joined.
RECURSIVE ExtendParsed(_, _)
ExtendParsed(st, files) ==
    IF files = <<>> THEN <<>>
    ELSE (IF Parses(st, Head(files)) THEN st[Head(files)].recs ELSE <<>>)
         \o ExtendParsed(st, Tail(files))

\* load_all_training_data: data[profile], region -> the records of its files
\* that parse; a region gets an entry with its first file that parses.
load_all_training_data(st) ==
    [c \in {r \in Regions : \E k \in Glob(st, r) : Parses(st, k)} |->
        ExtendParsed(st, get_session_files_for_country(st, c))]

\* calculate_stats of check_progress.py (the average duration and the
\* percentage are left out).
calculate_stats(shorts) ==
    [count |-> Len(shorts),
     related |-> Cardinality({n \in 1..Len(shorts) :
                                 shorts[n].is_conflict_related}),
     sessions |-> Len(shorts) \div SHORTS_PER_SESSION]

\* print_progress_report: the "Sessions" line of the profile (the stats of
\* the lists of data[profile], joined), the line of each region, and the
\* count of complete sessions of the timing analysis, whose json.load
\* raises on a file that does not parse.  Without data nothing is shown.
print_progress_report(st) ==
    LET data == load_all_training_data(st)
        RECURSIVE extend(_)
        extend(d) ==
            IF DOMAIN d = {} THEN <<>>
            ELSE LET c == CHOOSE x \in DOMAIN d : TRUE
                 IN  d[c] \o extend([x \in DOMAIN d \ {c} |-> d[x]])
        stats == calculate_stats(extend(data))
        files == UNION {Glob(st, c) : c \in Regions}
        raised == \E k \in files : ~Parses(st, k)
    IN  IF DOMAIN data = {}
        THEN [shown |-> FALSE, sessions |-> 0,
              by_country |-> [c \in Regions |-> 0],
              complete |-> 0, raised |-> FALSE]
        ELSE [shown |-> TRUE,
              sessions |-> stats.sessions,
              by_country |->
                  [c \in Regions |->
                      IF c \in DOMAIN data
                      THEN calculate_stats(data[c]).count
                               \div SHORTS_PER_SESSION
                      ELSE 0],
              complete |->
                  IF raised THEN 0
                  ELSE Cardinality({k \in files :
                           Len(st[k].recs) >= SHORTS_PER_SESSION}),
              raised |-> raised]

\* load_all_home_data: the records of the home files, joined.
load_all_home_data(st) ==
    ExtendParsed(st, get_session_files_for_country(st, "home"))

\* calculate_stats of check_home_progress.py (by_country is left out).
calculate_home_stats(shorts) ==
    [count |-> Len(shorts),
     conflict_related |-> Cardinality({n \in 1..Len(shorts) :
                                 shorts[n].related_country # "None"}),
     sessions |-> Len(shorts) \div HOME_SHORTS_PER_SESSION]

\* print_home_progress_report: the "Sessions" line of the profile.  The
\* json.load of load_all_home_data is not guarded: a file that does not
\* parse ends the report before it shows anything, as does an empty
\* directory.
print_home_progress_report(st) ==
    LET raised == \E k \in Glob(st, "home") : ~Parses(st, k)
        shown == ~raised /\ Glob(st, "home") # {}
    IN  [shown |-> shown,
         sessions |-> IF shown
                      THEN calculate_home_stats(load_all_home_data(st)).sessions
                      ELSE 0,
         raised |-> raised]

----------------------------------------------------------------------------
(* Notions the properties use.                                              *)

\* The hour a session id was made at, read back from the id.
CreatedAt(sid) ==
    sid.date * 24 + (sid.hh % 12) + (IF sid.ampm = "PM" THEN 12 ELSE 0)

\* The session of the scope that was created last.
MostRecent(sc) ==
    CHOOSE k \in Glob(store, sc) :
        \A o \in Glob(store, sc) : CreatedAt(o.sid) <= CreatedAt(k.sid)

\* A readable session file with fewer records than its target.
Incomplete(k) == store[k].valid /\ Len(store[k].recs) < Target(k.scope)

\* The record sequence of an uninterrupted run: item n of the feed at place n.
IsFullRun(k) ==
    /\ store[k].valid
    /\ Len(store[k].recs) = Target(k.scope)
    /\ \A n \in 1..Len(store[k].recs) : store[k].recs[n].pos = n - 1

\* s is a prefix of t.
IsPrefix(s, t) == Len(s) <= Len(t) /\ \A n \in 1..Len(s) : s[n] = t[n]

\* The positions of a run inside the walker.
Walking == {"w_check", "w_extract", "w_open", "w_dump", "w_clear", "w_swipe"}

\* The run at s_create made a new session id (it resumes nothing).
NewSession == pc = "s_create" /\ SessionFile \notin DOMAIN store

\* Every region of the plan has its complete sessions and no other file.
Satisfied ==
    \A c \in Regions :
        /\ get_session_count_for_country(store, c) >= SESSIONS_PER_COUNTRY
        /\ \A k \in Glob(store, c) : store[k].valid /\ is_session_complete(store, k)

----------------------------------------------------------------------------
(* Properties.                                                              *)

\* C1: resume correctness.  When a run on a well-behaved feed returns
\* success, every session of its scope that an earlier run left cut short
\* between two items holds the record sequence of an uninterrupted run.
C1_ResumeCorrectness ==
    (pc = "s_return" /\ success /\ ~feed_failed) =>
        \A k \in cut : k.scope = scope => IsFullRun(k)

\* C2: persist after every record.  The appended record is in the file before
\* the buffer is cleared and before the cursor moves; at every item boundary
\* the file holds as many records as items were processed; and the file is
\* never more than one record behind the list in memory.
C2_PersistAfterEveryRecord ==
    /\ pc \in {"w_clear", "w_swipe"} =>
           /\ SessionFile \in DOMAIN store
           /\ store[SessionFile] = [valid |-> TRUE, recs |-> shorts_data]
    /\ pc \in {"w_check", "w_extract"} =>
           Held(store, SessionFile) = Len(shorts_data)
    /\ pc \in Walking => Len(shorts_data) - Held(store, SessionFile) <= 1

\* C3: crash-safe write.  A run that stops inside save_session, after the
\* file was opened for writing, leaves the file with at least the records it
\* held before the call.
C3_CrashSafeWrite ==
    [][(pc = "w_dump" /\ pc' # "w_clear") =>
           Held(store', SessionFile) >=
               (IF SessionFile \in DOMAIN persisted
                THEN Len(persisted[SessionFile]) ELSE 0)]_vars

\* C4: cancellation.  Between runs, every record that was written is still in
\* its session file, and at most one session of a scope is not complete.
C4_Cancellation ==
    pc = "idle" =>
        /\ \A k \in DOMAIN persisted :
               store[k].valid /\ IsPrefix(persisted[k], store[k].recs)
        /\ \A sc \in Scopes :
               Cardinality({k \in Glob(store, sc) :
                               ~is_session_complete(store, k)}) <= 1

\* C5: session listing is chronological.  Of two sessions of one scope the
\* one created earlier is listed first.
C5_ListingChronological ==
    \A sc \in Scopes :
        LET files == get_session_files_for_country(store, sc)
        IN  \A a, b \in 1..Len(files) :
                CreatedAt(files[a].sid) < CreatedAt(files[b].sid) => a < b

\* C6: resume before starting fresh.  When a run looks for a session to
\* resume and the most recently created session of its scope is short of the
\* target, it gets that session; and a run makes a new session id only when
\* no session of its scope is incomplete.
C6_ResumeBeforeFresh ==
    /\ (/\ pc = "s_begin"
        /\ Glob(store, scope) # {}
        /\ Incomplete(MostRecent(scope)))
           => /\ ~IncompleteRaises(store, scope)
              /\ get_incomplete_session(store, scope) = {MostRecent(scope)}
    /\ NewSession => \A k \in Glob(store, scope) : ~Incomplete(k)

\* C7: idempotent re-entry.  While the plan is fully satisfied and no run is
\* under way, no step starts a session, creates a driver, makes a session id
\* or changes the store.
C7_IdempotentReentry ==
    [][(Satisfied /\ pc = "idle") =>
           /\ pc' = "idle"
           /\ store' = store
           /\ driver' = driver
           /\ now' = now]_vars

\* C7 witness: a whole call of run_full_experiment on a satisfied plan has
\* returned with every slot of every round skipped.
C7_Witness ==
    /\ oPc = "t_done"
    /\ Satisfied
    /\ skipped = SESSIONS_PER_COUNTRY * Len(country_order)

\* C8: training orchestrator postcondition.  When run_full_experiment has
\* returned, every region of the plan has its complete sessions.
C8_TrainingPostcondition ==
    oPc = "t_done" =>
        \A c \in Regions :
            get_session_count_for_country(store, c) >= SESSIONS_PER_COUNTRY

\* C9: measurement orchestrator postcondition.  When run_home_feed has
\* returned, the complete home sessions reach the target; and an iteration
\* makes a new home session only when no home session is incomplete.
C9_MeasurementPostcondition ==
    /\ oPc = "h_done" =>
           get_session_count_for_country(store, "home") >= HOME_SESSIONS
    /\ (oPc = "h_call" /\ NewSession) =>
           \A k \in Glob(store, "home") : ~Incomplete(k)

\* C10 as stated: a home-feed run sends the page nothing but load, read and
\* advance.
C10_OnlyLoadReadAdvance ==
    scope = "home" => actions \subseteq {"load", "read", "advance"}

\* C10 as amended: a home-feed run never likes or watches an item, and sends
\* the page nothing but load, the play click of wait_for_shorts_load, read
\* and advance.
C10_PassiveMeasurement ==
    scope = "home" =>
        /\ actions \cap {"like", "watch"} = {}
        /\ actions \subseteq {"load", "click_play", "read", "advance"}

\* C10 witness: a home-feed run has returned with a whole session in which
\* the classifier named a region.
C10_Witness ==
    /\ scope = "home"
    /\ pc = "s_return"
    /\ success
    /\ Len(shorts_data) = HOME_SHORTS_PER_SESSION
    /\ \E n \in 1..Len(shorts_data) : shorts_data[n].related_country # "None"
    /\ "advance" \in actions

\* C11: guaranteed cleanup.  A session run that has created its driver never
\* leaves, by return, by an exception or by an interrupt, without
\* driver.quit(): the driver of a run that returned is quit, and no browser
\* is left open behind a run that raised.
C11_GuaranteedCleanup ==
    /\ pc = "s_return" => driver = "quit"
    /\ driver # "leaked"

\* C12: session-fatal errors do not abort the run.  When a session run that
\* failed on a fatal error of the feed (a load timeout) has closed its
\* browser, the session file is as it was, the run returns to its
\* orchestrator, and the orchestrator is still running.
C12_FatalErrorsDoNotAbort ==
    [][(pc = "s_finally" /\ exc /\ driver' = "quit") =>
           /\ store' = store
           /\ pc' = "s_return"
           /\ oPc' = oPc]_vars

\* C13: classifier failures are absorbed.  Whatever the classifier answers,
\* the empty response included, no step of the extractor leaves the walk
\* with an exception.
C13_ClassifierFailuresAbsorbed ==
    [][pc = "w_extract" => ~exc']_vars

C15_ClearBeforeAdvance ==
    /\ pc = "w_clear" => Held(store, SessionFile) = Len(shorts_data)
    /\ pc = "w_swipe" => requests = {}
    /\ pc = "w_extract" => requests \subseteq {cursor}

\* s is a permutation of the set S.
IsPermutation(s, S) ==
    /\ Len(s) = Cardinality(S)
    /\ {s[n] : n \in 1..Len(s)} = S

\* The accounts whose order has region r at position n.
AccountsWith(accounts, n, r) ==
    {a \in accounts : ACCOUNT_COUNTRY_ORDER[a][n] = r}

ValidHomeRecords ==
    UNION {{[file |-> k, rec |-> store[k].recs[n]] : n \in 1..Len(store[k].recs)} :
           k \in {o \in Glob(store, "home") : Parses(store, o)}}

\* C18: aggregator corruption tolerance.  Whatever home files are truncated
\* or invalid, loading them does not raise, and what was loaded is as many
\* records as the valid files hold, with the same number for every label.
C18_AggregatorCorruptionTolerance ==
    /\ aPc # "a_raised"
    /\ aPc = "a_loaded" =>
           /\ Len(all_shorts) = Cardinality(ValidHomeRecords)
           /\ \A label \in AnalysisLabels :
                  Labelled(all_shorts, label)
                      = Cardinality({v \in ValidHomeRecords :
                                        v.rec.related_country = label})

\* C19: aggregator tally.  Once the records are counted, every configured
\* region has a count, which is the number of records labelled with that
\* region, and the counts of the regions and the records labelled None add
\* up to all the records.
C19_AggregatorTally ==
    aPc = "a_counted" =>
        /\ \A c \in ConflictCountry :
               /\ c \in DOMAIN observed_counts
               /\ observed_counts[c] = Labelled(all_shorts, c)
        /\ SumValues(observed_counts) + Labelled(all_shorts, "None")
               = Len(all_shorts)

\* The expected counts of a result, in the order of the regions.
ExpectedList(result) ==
    [n \in 1..Len(countries) |-> result.expected[countries[n]]]

\* The float a is n / d up to a relative error of 2^(3 - MantissaBits).
FloatNear(a, n, d) ==
    LET up == IF a.e < 0 THEN 0 - a.e ELSE 0
        down == IF a.e < 0 THEN 0 ELSE a.e
        have == a.m * 2^down * d
        want == n * 2^up
        diff == IF have > want THEN have - want ELSE want - have
    IN  diff <= want \div 2^(MantissaBits - 3)

\* C20 as stated: for counts with a positive total the expected counts of
\* the result add up to exactly the total of the observed counts, and df is
\* the number of regions less one.
C20_SumExpectedIsSumObserved ==
    aPc = "a_tested" =>
        /\ FloatIsInt(FloatSum(ExpectedList(chi_square_results)),
                      SumValues(chi_square_results.observed))
        /\ chi_square_results.df = Len(countries) - 1

\* C20 as amended: for counts with a positive total every expected count is
\* the region's share severity / sum(severity) of the observed total up to
\* floating-point rounding, so the expected counts add up to the observed
\* total up to floating-point rounding, and df is the number of regions
\* less one.
C20_InferenceResultInvariants ==
    aPc = "a_tested" =>
        LET total == SumValues(chi_square_results.observed)
        IN  /\ total > 0
            /\ \A c \in DOMAIN ACLED_SCORES :
                   FloatNear(chi_square_results.expected[c],
                             ACLED_SCORES[c] * total, SumValues(ACLED_SCORES))
            /\ FloatNear(FloatSum(ExpectedList(chi_square_results)), total, 1)
            /\ chi_square_results.df = Len(countries) - 1

\* C20 witness: a result for counts of two regions whose expected counts do
\* not add up to the observed total exactly.
C20_Witness ==
    /\ aPc = "a_tested"
    /\ chi_square_results.observed["Palestine"] > 0
    /\ chi_square_results.observed["Mexico"] > 0
    /\ ~FloatIsInt(FloatSum(ExpectedList(chi_square_results)),
                   SumValues(chi_square_results.observed))

\* The complete sessions of a region that were created before session k.
CompletedBefore(k) ==
    {o \in Glob(store, k.scope) :
        /\ store[o].valid
        /\ is_session_complete(store, o)
        /\ CreatedAt(o.sid) < CreatedAt(k.sid)}

\* C16: round-robin seeds.  A training run loads the seed whose index is the
\* number of complete sessions of its region modulo the pool size, so every
\* record of the k-th complete session of a region (k from 0) was taken
\* from the feed of seed k modulo the pool size.
C16_RoundRobinSeeds ==
    /\ (pc = "s_load" /\ scope \in Regions) =>
           start_url = get_session_count_for_country(store, scope) % PoolSize
    /\ \A c \in Regions : \A k \in Glob(store, c) :
           (store[k].valid /\ is_session_complete(store, k)) =>
               \A n \in 1..Len(store[k].recs) :
                   store[k].recs[n].seed
                       = Cardinality(CompletedBefore(k)) % PoolSize

\* C16 witness: a region has two complete sessions, the first taken from
\* seed 0 and the second from seed 1, one of them finished by a resumed run.
C16_Witness ==
    \E c \in Regions : \E a, b \in Glob(store, c) :
        /\ a # b
        /\ IsFullRun(a) /\ IsFullRun(b)
        /\ store[a].recs[1].seed = 0
        /\ store[b].recs[1].seed = 1
        /\ cut \cap {a, b} # {}

\* C21: whenever run_chi_square_analysis has returned, the counts it was
\* given were not all zero, and neither the statistic nor any residual it
\* returned is nan: on all-zero counts it reports an error instead.
C21_ZeroDivisionGuard ==
    aPc = "a_tested" =>
        /\ SumValues(chi_square_results.observed) # 0
        /\ ~chi_square_results.chi2.nan
        /\ \A c \in DOMAIN ACLED_SCORES :
              ~chi_square_results.standardized_residuals[c].nan

\* The residual of a region in the results that were printed, and whether
\* the region is in a printed list.
Residual(c) == chi_square_results.standardized_residuals[c]

Listed(list, c) == \E j \in 1..Len(list) : list[j] = c

\* C22: in the printed table a region carries a flag (significant at 0.05)
\* iff |residual| > 1.96, and the flag of the 0.01 level iff
\* |residual| > 2.58.
C22_ResidualSignificanceLevels ==
    aPc = "a_printed" =>
        \A c \in DOMAIN ACLED_SCORES :
            /\ printed.flag[c] # "" <=> AbsGreater(Residual(c), Literal(196, 100))
            /\ printed.flag[c] = "**" <=> AbsGreater(Residual(c), Literal(258, 100))

\* C23: a region is listed as over-represented iff its residual > 1.96, as
\* under-represented iff its residual < -1.96, never as both; a residual
\* that is the decimal h/100 (negated or not) is listed over iff it is
\* positive and h > 196, under iff it is negative and h > 196, so 0 and
\* 1.95 are not listed and 1.97 is.
C23_OverUnderBoundary ==
    aPc = "a_printed" =>
        \A c \in DOMAIN ACLED_SCORES :
            /\ Listed(printed.over_rep, c) <=> Greater(Residual(c), Literal(196, 100))
            /\ Listed(printed.under_rep, c) <=> Less(Residual(c), Literal(196, 100))
            /\ ~(Listed(printed.over_rep, c) /\ Listed(printed.under_rep, c))
            /\ Residual(c).m = 0 =>
                  ~Listed(printed.over_rep, c) /\ ~Listed(printed.under_rep, c)
            /\ \A neg \in BOOLEAN, h \in {195, 196, 197, 259} :
                  Residual(c) = Signed(neg, Literal(h, 100)) =>
                      /\ Listed(printed.over_rep, c) <=> (~neg /\ h > 196)
                      /\ Listed(printed.under_rep, c) <=> (neg /\ h > 196)

\* Results are printed with a residual of 1.97 (listed over), of -1.97
\* (listed under), of 1.95 and of 0 (listed as neither).
C23_Witness ==
    /\ aPc = "a_printed"
    /\ Residual("Palestine") = Signed(FALSE, Literal(197, 100))
    /\ Residual("Myanmar") = Signed(TRUE, Literal(197, 100))
    /\ Residual("Ukraine") = Signed(FALSE, Literal(195, 100))
    /\ Residual("Mexico").m = 0
    /\ printed.over_rep = <<"Palestine">>
    /\ printed.under_rep = <<"Myanmar">>

\* A float x >= 0 in thousandths, rounded down.
Milli(x) ==
    IF x.m = 0 THEN 0
    ELSE IF x.e < 0 THEN (x.m * 1000) \div 2^(0 - x.e)
    ELSE x.m * 1000 * 2^x.e

\* The sum over the regions of (observed - expected)^2 / expected in exact
\* arithmetic, in thousandths: with expected = T * s / S (s the score of
\* the region, S the sum of the scores, T the total), a term is
\* (observed * S - T * s)^2 / (S * T * s).
ExactChi2Milli(counts) ==
    LET T == SumValues(counts)
        S == SumValues(ACLED_SCORES)
        term(c) ==
            LET num == counts[c] * S - T * ACLED_SCORES[c]
                den == S * T * ACLED_SCORES[c]
            IN  ((num * num) \div den) * 1000
                    + ((num * num) % den) \div (den \div 1000)
    IN  SumValues([c \in DOMAIN ACLED_SCORES |-> term(c)])

\* The counts of the example: 50, 30, 15 and 5.
ExampleCounts ==
    [c \in DOMAIN ACLED_SCORES |->
        CASE c = "Palestine" -> 50 [] c = "Myanmar" -> 30
          [] c = "Ukraine" -> 15 [] c = "Mexico" -> 5]

\* The computation of run_chi_square_analysis on the example's counts with
\* the same proportion for every region.
ExampleResults ==
    chi_square_of(ExampleCounts,
                  [c \in DOMAIN ACLED_SCORES |-> ACLED_NORMALIZED_Uniform(c)])

\* C24: the statistic run_chi_square_analysis returns is the sum over the
\* regions of (observed - expected)^2 / expected (up to the rounding of the
\* floating-point operations, half a percent here) and df = 3; and its
\* computation on 50, 30, 15, 5 with equal proportions gives expected 25
\* for every region, chi2 = 46 and df = 3.
C24_ChiSquareValue ==
    aPc = "a_tested" =>
        /\ ~chi_square_results.chi2.nan
        /\ LET exact == ExactChi2Milli(observed_counts)
               got == Milli(chi_square_results.chi2)
               tolerance == 5 + exact \div 200
           IN  got - exact <= tolerance /\ exact - got <= tolerance
        /\ chi_square_results.df = 3
        /\ \A c \in DOMAIN ACLED_SCORES : FloatIsInt(ExampleResults.expected[c], 25)
        /\ ~ExampleResults.chi2.nan /\ FloatIsInt(ExampleResults.chi2, 46)
        /\ ExampleResults.df = 3

\* The statistic has been computed for two items of Palestine and two of
\* Mexico: about 5.50.
C24_Witness ==
    /\ aPc = "a_tested"
    /\ observed_counts["Palestine"] = 2 /\ observed_counts["Mexico"] = 2
    /\ observed_counts["Myanmar"] = 0 /\ observed_counts["Ukraine"] = 0
    /\ Milli(chi_square_results.chi2) \in 5480..5520

\* C25: while two runs for different profiles go on side by side, no file
\* has been opened by both, and the files each profile's listing yields
\* are, name by name and record by record, the files as that profile's own
\* run left them.
C25_CrossProfileIsolation ==
    (walker # <<>> /\ walker[1].account # walker[2].account) =>
        /\ (touched[1].read \cup touched[1].written)
              \cap (touched[2].read \cup touched[2].written) = {}
        /\ \A w \in Walkers :
              /\ AllNames(w) = DOMAIN own[w]
              /\ \A n \in AllNames(w) : store[n] = own[w][n]

\* Two runs for different profiles and the same region have both finished
\* a session, one of them resumed, and each profile has its own file.
C25_Witness ==
    /\ walker # <<>>
    /\ walker[1].account # walker[2].account
    /\ walker[1].scope = walker[2].scope
    /\ walker[1].pc = "p_done" /\ walker[2].pc = "p_done"
    /\ walker[1].session_id = strftime(0 - 1)
    /\ touched[1].written # {} /\ touched[2].written # {}
    /\ \A w \in Walkers : store[WalkerFile(w)].recs = walker[w].shorts_data

\* C26: two runs for the same profile and scope never both write the same
\* session file.
C26_SingleWriter ==
    (/\ walker # <<>>
     /\ walker[1].account = walker[2].account
     /\ walker[1].scope = walker[2].scope) =>
        touched[1].written \cap touched[2].written = {}

\* C27: a write of a session file (save_session from its open to the end of
\* its dump) puts in place of the file's content that content and one more
\* record at the end, a new file getting one record; no other step of
\* a run changes a file.  Stops come between the steps, not inside a write.
C27_AppendOnly ==
    [][/\ (pc = "w_open" /\ pc' = "w_dump") =>
              /\ Len(shorts_data) >= 1
              /\ IF SessionFile \in DOMAIN store
                 THEN /\ store[SessionFile].valid
                      /\ store[SessionFile].recs
                            = SubSeq(shorts_data, 1, Len(shorts_data) - 1)
                 ELSE Len(shorts_data) = 1
              /\ \A k \in DOMAIN store \ {SessionFile} :
                    k \in DOMAIN store' /\ store'[k] = store[k]
       /\ (pc = "w_dump" /\ pc' = "w_clear") =>
              /\ shorts_data' = shorts_data
              /\ DOMAIN store' = DOMAIN store
              /\ store'[SessionFile] = [valid |-> TRUE, recs |-> shorts_data]
              /\ \A k \in DOMAIN store \ {SessionFile} : store'[k] = store[k]
       /\ pc \notin {"w_open", "w_dump"} => store' = store]_vars

\* A resumed session has been written: its file holds the records it held
\* before the run and one more.
C27_Witness ==
    /\ pc = "w_clear"
    /\ existing_data # <<>>
    /\ store[SessionFile].valid
    /\ store[SessionFile].recs
          = Append(existing_data, shorts_data[Len(shorts_data)])

\* The place after region idx of round r when the rounds go through the
\* plan one after the other.
SlotAfter(r, idx) ==
    IF idx < Len(country_order) THEN <<r, idx + 1>> ELSE <<r + 1, 1>>

\* C28: run_full_experiment goes through SESSIONS_PER_COUNTRY rounds and,
\* within a round, through the regions in the order of the plan: a session
\* starts only for the region of the place the loops are at; the place
\* moves on, to the next region or to the first of the next round, after a
\* skip and after the one session of the place has returned; the function
\* returns after the last round; and in a run in which nothing was skipped
\* and nothing failed every region has r complete sessions at the end of
\* round r.
C28_StaggeredRounds ==
    [][/\ (oPc = "t_loop" /\ oPc' = "t_call") =>
              /\ round_num \in 1..SESSIONS_PER_COUNTRY
              /\ scope' = country_order[country_idx]
              /\ <<round_num', country_idx'>> = <<round_num, country_idx>>
       /\ (oPc \in {"t_loop", "t_call"} /\ oPc' = "t_loop") =>
              <<round_num', country_idx'>> = SlotAfter(round_num, country_idx)
       /\ (oPc = "t_call" /\ oPc' = "t_call") =>
              <<round_num', country_idx'>> = <<round_num, country_idx>>
       /\ oPc' = "t_done" =>
              round_num' = SESSIONS_PER_COUNTRY + 1 /\ country_idx' = 1
       /\ (/\ oPc' \in {"t_loop", "t_done"}
           /\ country_idx' = 1 /\ round_num' > 1
           /\ faults' = 0 /\ skipped' = 0) =>
              \A c \in Regions :
                  get_session_count_for_country(store', c) = round_num' - 1]_vars

\* The first round of a run on an empty directory has ended: every region
\* has one complete session and the second round is about to begin.
C28_Witness ==
    /\ oPc = "t_loop"
    /\ round_num = 2 /\ country_idx = 1
    /\ faults = 0 /\ skipped = 0
    /\ \A c \in Regions : get_session_count_for_country(store, c) = 1

\* The run is where the wait for the player has timed out: the exception is
\* on its way and play was never clicked.
TimedOut ==
    /\ pc = "s_finally"
    /\ exc
    /\ "load" \in actions /\ "click_play" \notin actions

\* C29: when the wait for the feed times out, the run has extracted no item
\* and advanced nowhere, the step of the timeout and the run's next step
\* write no file, and that next step quits the driver.
C29_LoadTimeout ==
    [][/\ (pc = "s_load" /\ exc') =>
              /\ TimedOut'
              /\ store' = store
              /\ driver' = "open"
       /\ TimedOut' =>
              /\ shorts_data' = <<>>
              /\ actions' \cap {"advance", "like", "watch"} = {}
              /\ cursor' = 0
       /\ (TimedOut /\ faults' = faults) =>
              /\ store' = store
              /\ driver' = "quit"
              /\ pc' = "idle"]_vars

\* The wait has timed out in the session that follows a complete one: the
\* driver is still open, and the run has no file yet.
C29_Witness ==
    /\ TimedOut
    /\ driver = "open"
    /\ shorts_data = <<>>
    /\ store # <<>>
    /\ SessionFile \notin DOMAIN store

\* C30: every item a training session records as related has been liked and
\* watched, and the extraction of an item recorded as not related sends
\* neither a like nor a watch.
C30_EngagementFollowsLabel ==
    [][(pc = "w_extract" /\ scope # "home" /\ pc' = "w_open") =>
           LET last == shorts_data'[Len(shorts_data')]
           IN  /\ last.is_conflict_related =>
                     {"like", "watch"} \subseteq actions'
               /\ ~last.is_conflict_related =>
                     (actions' \ actions) \cap {"like", "watch"} = {}]_vars

\* C31: once the records are counted, the counts are those that the load
\* and the count give for every order in which the home files of the
\* directory can be enumerated.
C31_AggregationOrderIndependent ==
    aPc \in {"a_counted", "a_noconflict"} =>
        \A files \in Orders(Glob(store, "home")) :
            get_conflict_counts(load_home_feed_data(store, files))
                = observed_counts

\* The records of two files with different labels were counted after the
\* files were enumerated against the order of their names.
C31_Witness ==
    /\ aPc = "a_counted"
    /\ Cardinality(Glob(store, "home")) = 2
    /\ all_shorts # load_home_feed_data(store,
                                        get_session_files_for_country(store, "home"))
    /\ observed_counts["Palestine"] = 1
    /\ observed_counts["Mexico"] = 2

\* C32: every call of run_home_feed comes to an end: it returns, unless an
\* exception or a kill ends the process first; and the session runs of a
\* call are at most HOME_SESSIONS and one more for every fault.
C32_MeasurementTermination ==
    /\ [](sessions_run <= HOME_SESSIONS + faults)
    /\ (oPc = "h_while" ~> oPc \in {"h_done", "idle"})

\* run_home_feed has returned after a session run that was stopped and
\* HOME_SESSIONS session runs that each completed a session.
C32_Witness ==
    /\ oPc = "h_done"
    /\ faults = 1
    /\ sessions_run = HOME_SESSIONS + 1
    /\ get_session_count_for_country(store, "home") = HOME_SESSIONS

\* C33: from the empty directory on, whatever runs, stops and resumes there
\* were, no session file holds more records than the target of its scope,
\* and a complete session holds exactly the target.
C33_SessionLengthBound ==
    \A k \in DOMAIN store :
        /\ Len(store[k].recs) <= Target(k.scope)
        /\ (store[k].valid /\ is_session_complete(store, k)) =>
               Len(store[k].recs) = Target(k.scope)

\* A run that resumed a session has returned with the session complete.
C33_Witness ==
    /\ pc = "s_return"
    /\ success
    /\ existing_data # <<>>
    /\ store[SessionFile].valid
    /\ Len(store[SessionFile].recs) = Target(scope)

\* C34: a session run that returns True has left its session with the
\* target number of records, also when the walk was left because the
\* browser reported no current URL.
C34_SuccessMeansComplete ==
    (pc = "s_return" /\ success) =>
        /\ Held(store, SessionFile) >= Target(scope)
        /\ Len(shorts_data) >= Target(scope)

\* C35: a training run that resumes a session is about to load, and then
\* has loaded, the start URL that the session's first run loaded, wherever
\* that run was stopped and however many sessions of the region were
\* complete.
C35_SeedStabilityOnResume ==
    /\ (pc = "s_load" /\ scope \in Regions /\ existing_data # <<>>) =>
           /\ SessionFile \in DOMAIN loaded
           /\ loaded[SessionFile] = start_url
    /\ (scope \in Regions /\ "load" \in actions) =>
           /\ SessionFile \in DOMAIN loaded
           /\ loaded[SessionFile] = start_url

\* A session of a region that had one complete session was stopped and is
\* resumed: the run has loaded the second URL of the pool again.
C35_Witness ==
    /\ pc = "s_skip"
    /\ scope \in Regions
    /\ existing_data # <<>>
    /\ get_session_count_for_country(store, scope) = 1
    /\ start_url = 1
    /\ loaded[SessionFile] = 1

\* No two records of the list are of the same item of the feed.
NoDuplicate(recs) ==
    \A a, b \in 1..Len(recs) :
        a # b => <<recs[a].seed, recs[a].pos>> # <<recs[b].seed, recs[b].pos>>

\* C36: also when a swipe has failed, in the walk or in the skip-ahead of a
\* resume, no session holds two records of the same item of the feed, and
\* the item about to be extracted is the one at the feed position that
\* equals the number of records the session file holds.
C36_FailedAdvanceNoDuplicate ==
    /\ NoDuplicate(shorts_data)
    /\ \A k \in DOMAIN store : NoDuplicate(store[k].recs)
    /\ pc = "w_extract" => cursor = Held(store, SessionFile)

\* C37: in a complete training session an item was liked iff its record
\* says is_conflict_related, whatever stops came between the like and the
\* save and whatever the classifier answered when a resumed run extracted
\* the item again.
C37_EngagementMatchesLog ==
    \A k \in DOMAIN store :
        (k.scope \in Regions /\ store[k].valid /\ is_session_complete(store, k)) =>
            \A n \in 1..Len(store[k].recs) :
                store[k].recs[n].is_conflict_related
                    <=> FeedItem(k.scope, store[k].recs[n].seed,
                                 store[k].recs[n].pos) \in liked

\* The session runs the call of run_full_experiment has started: the places
\* of the loops it has been at, less those it skipped.
RunsStarted == session_counter - skipped

\* C38: a call of run_full_experiment is at no more than
\* SESSIONS_PER_COUNTRY x (number of regions) places of its loops and so
\* starts no more session runs than that, and no region has more than
\* SESSIONS_PER_COUNTRY complete sessions, whether the sessions succeed or
\* fail and also over several calls.
C38_TrainingRunBounded ==
    /\ session_counter <= SESSIONS_PER_COUNTRY * Len(country_order)
    /\ RunsStarted <= SESSIONS_PER_COUNTRY * Len(country_order)
    /\ \A c \in Regions :
           get_session_count_for_country(store, c) <= SESSIONS_PER_COUNTRY

\* A call has returned after SESSIONS_PER_COUNTRY x (number of regions)
\* session runs, one of which failed and left its region a session short.
C38_Witness ==
    /\ oPc = "t_done"
    /\ RunsStarted = SESSIONS_PER_COUNTRY * Len(country_order)
    /\ faults = 1
    /\ \E c \in Regions :
           get_session_count_for_country(store, c) < SESSIONS_PER_COUNTRY


\* C39: the session counts a progress report shows for the profile (its
\* records divided by the per-session target, rounded down) are the numbers
\* of complete session files that get_session_count_for_country and
\* get_home_session_count count, wherever these return a number: the
\* "Sessions" line of the training report is the sum over the regions, the
\* line of a region is the region's count, and the "Sessions" line of the
\* home report is the home count.
C39_ReportAgreesWithStore ==
    /\ ( /\ print_progress_report(store).shown
         /\ \A c \in Regions : ~CountRaises(store, c) )
       => /\ print_progress_report(store).sessions =
                SumValues([c \in Regions |->
                              get_session_count_for_country(store, c)])
          /\ \A c \in Regions :
                print_progress_report(store).by_country[c] =
                    get_session_count_for_country(store, c)
    /\ print_home_progress_report(store).shown
       => print_home_progress_report(store).sessions =
              get_session_count_for_country(store, "home")

====
